---- MODULE Spec2Model ----
(***************************************************************************)
(* GeminiEditor: the edit-decision-list (EDL) store with its undo/redo     *)
(* history, the editor page that feeds the preview player, and the         *)
(* sequential video player.                                                *)
(*                                                                         *)
(* Times are integers in ticks of 0.05 s (5 s = 100 ticks, 0.1 s = 2       *)
(* ticks): the arithmetic of the code is modelled exactly on that grid,    *)
(* floating-point rounding is not.                                         *)
(***************************************************************************)
EXTENDS Integers, Sequences, FiniteSets, TLC

\* ------------------------------------------------------------------ bounds
MaxDecisions == 3
MaxOps == 3
MaxRoundTrip == 2
MaxClips == 2
MaxInflight == 1
\* error events counted for one clip index (then "or more")
MaxLoadErrors == 2
MaxPlayerOps == 2
\* clips of the player with a list longer than its preload buffer
MaxBufferClips == 5
\* global times tried around the timeline: this far before 0 and past the end
MapMargin == 2
\* transcript jobs started, and poll responses on their way at once
MaxJobs == 2
MaxPolls == 2
\* the time of the element the sync service follows (ticks), and the
\* notifications it delivers in one run
MaxMediaTime == 8
MaxSyncLog == 3

\* ------------------------------------------------------- program constants
\* TrimExtendModal.handleSave: "duration < 0.1" (0.1 s = 2 ticks)
MinTrimDuration == 2
\* SequentialVideoPlayer: BUFFER_SIZE, and "index < currentClipIndex - 2"
BUFFER_SIZE == 3
BehindKeep == 2
\* handleSeek: setTimeout(..., 100) after a clip change, setTimeout(..., 50)
\* within the clip (in ticks of 0.05 s)
SeekDelayCross == 2
SeekDelaySame == 1

VARIABLES
    \* editorStore.ts, and the states its last write passed to the subscribers
    \* of the store (one for each set() call)
    editDecisions, undoStack, redoStack, notified, selectedDecisions,
    \* EditEditorPage (part_001)
    editingDecisionId, clips, refetchEdit, refetchPreview,
    \* the persistence service behind apiClient
    serverDecisions,
    \* observation: the last operation, and counters that bound the run
    lastOp, lastArgs, nOps,
    \* round-trip scenario driver
    rtPhase, rtOrig, rtFinal, rtN, rtUndone, rtRedone,
    \* SequentialVideoPlayer: React state and refs
    currentClipIndex, isPlaying, currentTime, isSeeking, isLoadingClip,
    firstClipReady, bufferReady, intendedPlaying, preloadCache, isHlsMode,
    \* SequentialVideoPlayer: preload videos in flight (initial buffer with its
    \* loadedCount, rolling buffer)
    loadedCount, inflightInit, inflightRoll,
    \* the <video> element behind videoRef
    vSrc, vTime, vReady, vPaused, vEnded,
    \* callbacks waiting to run: loadeddata listeners of the element,
    \* requestAnimationFrame callbacks, play() promises, setTimeout timers
    listeners, frames, nPlayPromises, timers,
    \* observation of the player: the last seek, a pending automatic advance,
    \* the end of the list, the time signal around the last clip switch, the
    \* user's last press of play / pause
    seekObs, autoAdvance, endedAwaitPlay, switchObs, lastToggle,
    \* the environment of the player: the urls whose media cannot be loaded,
    \* what the browser offers for HLS ("hlsjs", "native" or "none")
    failing, hlsSupport,
    \* error events the preload <video> elements of each clip index have fired
    loadErrors,
    \* preload <video> elements of an earlier run of the preload effect that
    \* are still loading, with the loadedCount and clipsToPreload of that run
    stalePreloads,
    \* TranscriptVideoEditor: the transcript job and its polling interval, the
    \* job as the server has it, the poll responses on their way back
    processingJob, progressInterval, serverJob, pollsInFlight,
    \* TranscriptSyncService: its fields, the time and the paused flag of the
    \* element it follows, the states it passed to its callbacks, and whether
    \* a callback received a state after stopSync() during the last delivery
    segments, callbacks, currentState, animationFrameId, videoElement,
    mediaTime, mediaPaused, syncLog, lateDelivery

storeVars == <<editDecisions, undoStack, redoStack, notified, selectedDecisions>>
pageVars == <<editingDecisionId, clips, refetchEdit, refetchPreview, serverDecisions>>
countVars == <<nOps>>
rtVars == <<rtPhase, rtOrig, rtFinal, rtN, rtUndone, rtRedone>>
obsVars == <<lastOp, lastArgs>>
reactVars == <<currentClipIndex, isPlaying, currentTime, isSeeking, isLoadingClip,
               firstClipReady, bufferReady, intendedPlaying, preloadCache, isHlsMode>>
preloadVars == <<loadedCount, inflightInit, inflightRoll>>
videoVars == <<vSrc, vTime, vReady, vPaused, vEnded>>
pendingVars == <<listeners, frames, nPlayPromises, timers>>
playerObsVars == <<seekObs, autoAdvance, endedAwaitPlay, switchObs, lastToggle>>
envVars == <<failing, hlsSupport, loadErrors, stalePreloads>>
playerVars == <<reactVars, preloadVars, videoVars, pendingVars, playerObsVars, envVars>>
jobVars == <<processingJob, progressInterval, serverJob, pollsInFlight>>
syncVars == <<segments, callbacks, currentState, animationFrameId, videoElement,
              mediaTime, mediaPaused, syncLog, lateDelivery>>
transcriptVars == <<jobVars, syncVars>>
vars == <<storeVars, pageVars, obsVars, countVars, rtVars, transcriptVars, playerVars>>
\* what the job polling, and what the sync service, leave alone
outsideJob == <<storeVars, pageVars, obsVars, countVars, rtVars, syncVars, playerVars>>
outsideSync == <<storeVars, pageVars, obsVars, countVars, rtVars, jobVars, playerVars>>

\* ----------------------------------------------------------------- helpers
NoId == 0
DecisionIds == 1..MaxDecisions

Last(s) == s[Len(s)]
Front(s) == SubSeq(s, 1, Len(s) - 1)

\* { ...d, ...updates }
Spread(d, updates) ==
    [f \in DOMAIN d |-> IF f \in DOMAIN updates THEN updates[f] ELSE d[f]]

\* array.filter(d => d.id !== decisionId)
RECURSIVE WithoutId(_, _)
WithoutId(list, decisionId) ==
    IF list = <<>> THEN <<>>
    ELSE IF Head(list).id = decisionId THEN WithoutId(Tail(list), decisionId)
         ELSE <<Head(list)>> \o WithoutId(Tail(list), decisionId)

\* array.find(d => d.id === decisionId) !== undefined
HasId(list, decisionId) == \E i \in 1..Len(list) : list[i].id = decisionId

\* ------------------------------------------------ initial EDL (server data)
\* Decision i of the edit as the server first delivers it: clip lengths
\* alternate 5 s and 3 s and the decisions follow one another in the source.
ClipLen(i) == IF i % 2 = 1 THEN 100 ELSE 60
RECURSIVE StartOf(_)
StartOf(i) == IF i <= 1 THEN 0 ELSE StartOf(i - 1) + ClipLen(i - 1)

InitialDecision(i, included) ==
    [id |-> i, order_index |-> i - 1,
     start_time |-> StartOf(i), end_time |-> StartOf(i) + ClipLen(i),
     transcript_text |-> 0,
     is_included |-> included, is_ai_selected |-> included,
     user_modified |-> FALSE]

\* n decisions of which the first k are included
InitialList(n, k) == [i \in 1..n |-> InitialDecision(i, i <= k)]
\* every decision included, or all but the last one
InitLists ==
    {InitialList(n, n) : n \in 0..MaxDecisions}
        \cup {InitialList(n, n - 1) : n \in 1..MaxDecisions}

\* ------------------------------------------- persistence service (external)
\* The playback list of an EDL: the included decisions sorted by order_index
\* (stable insertion sort), one clip each with duration = end - start.
RECURSIVE InsertByOrder(_, _)
InsertByOrder(sorted, d) ==
    IF sorted = <<>> THEN <<d>>
    ELSE IF d.order_index < Head(sorted).order_index THEN <<d>> \o sorted
         ELSE <<Head(sorted)>> \o InsertByOrder(Tail(sorted), d)

RECURSIVE SortByOrder(_)
SortByOrder(list) ==
    IF list = <<>> THEN <<>>
    ELSE InsertByOrder(SortByOrder(Front(list)), Last(list))

RECURSIVE IncludedOf(_)
IncludedOf(list) ==
    IF list = <<>> THEN <<>>
    ELSE IF Head(list).is_included THEN <<Head(list)>> \o IncludedOf(Tail(list))
         ELSE IncludedOf(Tail(list))

ClipOf(d) ==
    [decision_id |-> d.id, clip_url |-> d.id,
     start_time |-> d.start_time, end_time |-> d.end_time,
     duration |-> d.end_time - d.start_time, order_index |-> d.order_index]

PreviewClips(list) ==
    LET pl == SortByOrder(IncludedOf(list))
    IN  [i \in 1..Len(pl) |-> ClipOf(pl[i])]

\* PUT .../decisions/{id} for every user-modified decision of the list: the
\* service overwrites the four fields sent; decisions it holds that the list
\* no longer has are left as they are.
ServerAfterSave(server, list) ==
    [i \in 1..Len(server) |->
        IF \E j \in 1..Len(list) :
               list[j].id = server[i].id /\ list[j].user_modified
        THEN LET d == list[CHOOSE j \in 1..Len(list) :
                           list[j].id = server[i].id /\ list[j].user_modified]
             IN  [server[i] EXCEPT !.order_index = d.order_index,
                                   !.start_time = d.start_time,
                                   !.end_time = d.end_time,
                                   !.is_included = d.is_included]
        ELSE server[i]]

\* ------------------------------------------------------------ editorStore
\* the part of the store state the subscribers read
StoreState(list, undos, redos) ==
    [editDecisions |-> list, undoStack |-> undos, redoStack |-> redos]

\* set(...) of an action that writes once: the subscribers are called with the
\* new state
Notify == notified' = <<StoreState(editDecisions', undoStack', redoStack')>>

\* a command calls set() twice, in saveToHistory() and for its own change: the
\* subscribers are called after each, first with the new stacks and the list
\* not yet replaced
NotifyCommand ==
    notified' = <<StoreState(editDecisions, undoStack', redoStack'),
                  StoreState(editDecisions', undoStack', redoStack')>>

\* setEditDecisions: (decisions) => set({ editDecisions: decisions })
setEditDecisions(decisions) ==
    /\ editDecisions' = decisions
    /\ UNCHANGED <<undoStack, redoStack>>
    /\ UNCHANGED selectedDecisions
    /\ Notify

saveToHistory_KeepsRedo ==
    /\ undoStack' = Append(undoStack, editDecisions)
    /\ UNCHANGED redoStack

\* saveToHistory: push the current list, clear the redo stack
saveToHistory ==
    /\ undoStack' = Append(undoStack, editDecisions)
    /\ redoStack' = <<>>

toggleDecisionInclusion(decisionId) ==
    /\ saveToHistory
    /\ editDecisions' =
         [i \in 1..Len(editDecisions) |->
            IF editDecisions[i].id = decisionId
            THEN [editDecisions[i] EXCEPT
                    !.is_included = ~editDecisions[i].is_included,
                    !.user_modified = TRUE]
            ELSE editDecisions[i]]
    /\ UNCHANGED selectedDecisions
    /\ NotifyCommand

reorderDecisions(newOrder) ==
    /\ saveToHistory
    /\ editDecisions' =
         [i \in 1..Len(newOrder) |->
            [newOrder[i] EXCEPT !.order_index = i - 1, !.user_modified = TRUE]]
    /\ UNCHANGED selectedDecisions
    /\ NotifyCommand

updateDecision(decisionId, updates) ==
    /\ saveToHistory
    /\ editDecisions' =
         [i \in 1..Len(editDecisions) |->
            IF editDecisions[i].id = decisionId
            THEN [Spread(editDecisions[i], updates) EXCEPT !.user_modified = TRUE]
            ELSE editDecisions[i]]
    /\ UNCHANGED selectedDecisions
    /\ NotifyCommand

removeDecision(decisionId) ==
    /\ saveToHistory
    /\ editDecisions' = WithoutId(editDecisions, decisionId)
    /\ UNCHANGED selectedDecisions
    /\ NotifyCommand

undo_PushesPopped ==
    IF Len(undoStack) = 0
    THEN UNCHANGED storeVars
    ELSE /\ editDecisions' = Last(undoStack)
         /\ undoStack' = Front(undoStack)
         /\ redoStack' = Append(redoStack, Last(undoStack))
         /\ UNCHANGED selectedDecisions
         /\ Notify

\* an undo that leaves the snapshot it restores on the undo stack
undo_KeepsTop ==
    IF Len(undoStack) = 0
    THEN UNCHANGED storeVars
    ELSE /\ editDecisions' = Last(undoStack)
         /\ UNCHANGED undoStack
         /\ redoStack' = Append(redoStack, editDecisions)
         /\ UNCHANGED selectedDecisions
         /\ Notify

undo ==
    IF Len(undoStack) = 0
    THEN UNCHANGED storeVars
    ELSE /\ editDecisions' = Last(undoStack)
         /\ undoStack' = Front(undoStack)
         /\ redoStack' = Append(redoStack, editDecisions)
         /\ UNCHANGED selectedDecisions
         /\ Notify

\* a redo that does not record the list it replaces
redo_DropsCurrent ==
    IF Len(redoStack) = 0
    THEN UNCHANGED storeVars
    ELSE /\ editDecisions' = Last(redoStack)
         /\ redoStack' = Front(redoStack)
         /\ UNCHANGED undoStack
         /\ UNCHANGED selectedDecisions
         /\ Notify

redo ==
    IF Len(redoStack) = 0
    THEN UNCHANGED storeVars
    ELSE /\ editDecisions' = Last(redoStack)
         /\ redoStack' = Front(redoStack)
         /\ undoStack' = Append(undoStack, editDecisions)
         /\ UNCHANGED selectedDecisions
         /\ Notify

\* toggleDecisionSelection, clearSelection, selectMultiple: one set() each,
\* which leaves the list and the stacks alone
SetSelection(ids) ==
    /\ selectedDecisions' = ids
    /\ UNCHANGED <<editDecisions, undoStack, redoStack>>
    /\ Notify

toggleDecisionSelection(decisionId) ==
    SetSelection(IF \E k \in 1..Len(selectedDecisions) : selectedDecisions[k] = decisionId
                 THEN SelectSeq(selectedDecisions, LAMBDA id : id # decisionId)
                 ELSE Append(selectedDecisions, decisionId))

clearSelection == SetSelection(<<>>)

selectMultiple(decisionIds) == SetSelection(decisionIds)

\* canUndo: () => get().undoStack.length > 0
canUndo == Len(undoStack) > 0
\* a canRedo that looks at the wrong stack
canRedo_FromUndoStack == Len(undoStack) > 0
\* canRedo: () => get().redoStack.length > 0
canRedo == Len(redoStack) > 0

\* -------------------------------------------------------- TrimExtendModal
\* handleSave: the two alerts return before onSave is called
TrimRejected(startTime, endTime) ==
    \/ startTime >= endTime
    \/ endTime - startTime < MinTrimDuration

\* --------------------------------------------------------- EditEditorPage
\* onSave of the TrimExtendModal: the page writes the new times with
\* setEditDecisions and closes the dialog.
TrimOnSave(updates) ==
    /\ IF HasId(editDecisions, editingDecisionId)
       THEN setEditDecisions(
              [i \in 1..Len(editDecisions) |->
                 IF editDecisions[i].id = editingDecisionId
                 THEN [Spread(editDecisions[i], updates) EXCEPT !.user_modified = TRUE]
                 ELSE editDecisions[i]])
       ELSE UNCHANGED storeVars
    /\ editingDecisionId' = NoId

handleSave_NoMinimum(startTime, endTime) ==
    IF startTime >= endTime
    THEN UNCHANGED <<storeVars, editingDecisionId>>
    ELSE TrimOnSave([start_time |-> startTime, end_time |-> endTime])

\* TrimExtendModal.handleSave with the dialog's startTime / endTime state
handleSave(startTime, endTime) ==
    IF TrimRejected(startTime, endTime)
    THEN UNCHANGED <<storeVars, editingDecisionId>>
    ELSE TrimOnSave([start_time |-> startTime, end_time |-> endTime])

\* ------------------------------------------------------------ user inputs
\* the list with the element at position i moved one place down
MoveDown(list, i) ==
    [k \in 1..Len(list) |->
        IF k = i THEN list[i + 1] ELSE IF k = i + 1 THEN list[i] ELSE list[k]]

\* <<startTime, endTime>> the user can leave in the trim dialog of decision
\* id: a valid trim, one shorter than 0.1 s, an empty one and a reversed one
TrimInputs(id) ==
    {<<StartOf(id) + 1, StartOf(id) + ClipLen(id)>>,
     <<StartOf(id), StartOf(id) + 1>>,
     <<StartOf(id), StartOf(id)>>,
     <<StartOf(id) + ClipLen(id), StartOf(id)>>}

\* updates passed to updateDecision (Partial<EditDecision>, taken as given): a
\* trim by one tick, and a range with its ends exchanged
Updates(id) ==
    {[start_time |-> StartOf(id) + 1, end_time |-> StartOf(id) + ClipLen(id)],
     [start_time |-> StartOf(id) + ClipLen(id), end_time |-> StartOf(id)]}

DialogClosed == editingDecisionId = NoId
\* every user operation spends one unit of the run's budget
OpsLeft == nOps < MaxOps


\* ------------------------------------------------- SequentialVideoPlayer
\* every click or drag on the player spends one unit of the player's budget
PlayerOpsLeft == nOps < MaxPlayerOps
NoSeek == [goal |-> <<>>, cross |-> FALSE, overlap |-> FALSE, loading |-> FALSE,
           was |-> "none"]
PreloadIdx == 0..(MaxClips + BUFFER_SIZE)
\* no clip switch observed; [to: the clip switched to, last: the last global
\* time emitted for the clip before, first: the first one emitted after the
\* switch, at: <<clip index, element position>> it was computed from]
NoSwitch == [to |-> -1, last |-> 0, first |-> -1, at |-> <<>>]
\* play / pause not pressed yet; [kind: "play" or "pause", ready: the element
\* had data when it was pressed, gated: the press came before firstClipReady,
\* served: a play() promise resolved since]
NoLoadErrors == [i \in PreloadIdx |-> 0]

NoStalePreloads == [loading |-> {}, loadedCount |-> 0, clipsToPreload |-> 0]

NoToggle == [kind |-> "none", ready |-> FALSE, gated |-> FALSE, served |-> FALSE]

\* useState / useRef initial values, no <video> source yet, nothing pending
PlayerInitialState ==
    /\ currentClipIndex = 0
    /\ isPlaying = FALSE
    /\ currentTime = 0
    /\ isSeeking = FALSE
    /\ isLoadingClip = FALSE
    /\ firstClipReady = FALSE
    /\ bufferReady = FALSE
    /\ intendedPlaying = FALSE
    /\ preloadCache = {}
    /\ isHlsMode = FALSE
    /\ loadedCount = 0
    /\ inflightInit = {}
    /\ inflightRoll = [i \in PreloadIdx |-> 0]
    /\ vSrc = 0
    /\ vTime = 0
    /\ vReady = 0
    /\ vPaused = TRUE
    /\ vEnded = FALSE
    /\ listeners = <<>>
    /\ frames = <<>>
    /\ nPlayPromises = 0
    /\ timers = <<>>
    /\ seekObs = NoSeek
    /\ autoAdvance = -1
    /\ endedAwaitPlay = FALSE
    /\ switchObs = NoSwitch
    /\ lastToggle = NoToggle
    /\ failing = {}
    /\ hlsSupport = "hlsjs"
    /\ loadErrors = NoLoadErrors
    /\ stalePreloads = NoStalePreloads

\* ------------------------------------ TranscriptVideoEditor: job polling
\* useState<ProcessingJob | null>(null)
NoJob == [job_id |-> 0, status |-> "none"]
JobIds == 1..MaxJobs
JobFinished(job) == job.status \in {"completed", "failed"}

\* the polling effect, with deps [processingJob?.status, processingJob?.job_id]:
\* it runs again when one of them changed, clears the interval and starts one
\* for a job whose status is 'processing'
PollingEffect(before, after, interval) ==
    IF before.status # after.status \/ before.job_id # after.job_id
    THEN after.status = "processing"
    ELSE interval

\* generateTranscript: the button is rendered for !hasTranscript &&
\* !isProcessing; the server creates the job, the response becomes
\* processingJob and the effect starts the interval
generateTranscript ==
    /\ processingJob.status \in {"none", "failed"}
    /\ \E id \in JobIds :
         /\ serverJob[id] = "none"
         /\ \A other \in JobIds : other < id => serverJob[other] # "none"
         /\ serverJob' = [serverJob EXCEPT ![id] = "processing"]
         /\ processingJob' = [job_id |-> id, status |-> "processing"]
    /\ progressInterval' = TRUE
    /\ UNCHANGED <<pollsInFlight, outsideJob>>

\* the transcript service finishes a job
JobEnds ==
    \E id \in JobIds : \E status \in {"completed", "failed"} :
        /\ serverJob[id] = "processing"
        /\ serverJob' = [serverJob EXCEPT ![id] = status]
        /\ UNCHANGED <<processingJob, progressInterval, pollsInFlight, outsideJob>>

\* setInterval(() => checkProcessingProgress(), 2000): the request part of
\* checkProcessingProgress; getTranscriptStatus is answered with the status
\* the server has for processingJobRef.current.job_id, or fails
PollTick ==
    /\ progressInterval
    /\ processingJob # NoJob
    /\ Len(pollsInFlight) < MaxPolls
    /\ \E answer \in {serverJob[processingJob.job_id], "error"} :
         pollsInFlight' = Append(pollsInFlight,
                                 [job_id |-> processingJob.job_id, status |-> answer])
    /\ UNCHANGED <<processingJob, progressInterval, serverJob, outsideJob>>

\* checkProcessingProgress after its await: a response arrives, in any order;
\* setProcessingJob(updatedJob), clearInterval for completed / failed and in
\* the catch block, then the polling effect
PollResponse ==
    \E k \in 1..Len(pollsInFlight) :
        LET response == pollsInFlight[k]
            updatedJob == [job_id |-> response.job_id, status |-> response.status]
        IN /\ pollsInFlight' = SubSeq(pollsInFlight, 1, k - 1)
                                 \o SubSeq(pollsInFlight, k + 1, Len(pollsInFlight))
           /\ IF response.status = "error"
              THEN /\ progressInterval' = FALSE
                   /\ UNCHANGED processingJob
              ELSE /\ processingJob' = updatedJob
                   /\ progressInterval' =
                        PollingEffect(processingJob, updatedJob,
                                      progressInterval /\ ~JobFinished(updatedJob))
           /\ UNCHANGED <<serverJob, outsideJob>>

\* ------------------------------------------------ TranscriptSyncService
\* Math.abs(this.currentState.currentTime - currentTime) > 0.1, in ticks
NotifyThreshold == 2
\* the transcripts handed to setSegments: none, or two segments with a pause
\* between them; the first has two words with a gap, the second no words
Transcript ==
    <<[id |-> 1, start |-> 0, end |-> 3,
       words |-> <<[start |-> 0, end |-> 1], [start |-> 3, end |-> 3]>>],
      [id |-> 2, start |-> 5, end |-> MaxMediaTime, words |-> <<>>]>>
SegmentLists == {<<>>, Transcript}
MediaTimes == 0..MaxMediaTime

Distance(a, b) == IF a < b THEN b - a ELSE a - b
Least(S) == CHOOSE x \in S : \A y \in S : x <= y

\* the index (from 0) of the word that holds time, else of the first of the
\* words nearest to it, else -1
WordAt(words, time) ==
    LET holding == {i \in 1..Len(words) :
                      words[i].start <= time /\ time <= words[i].end}
        diff(i) == LET a == Distance(time, words[i].start)
                       b == Distance(time, words[i].end)
                   IN IF a < b THEN a ELSE b
        nearest == {i \in 1..Len(words) : \A j \in 1..Len(words) : diff(i) <= diff(j)}
    IN IF holding # {} THEN Least(holding) - 1
       ELSE IF Len(words) > 0 THEN Least(nearest) - 1
       ELSE -1

findCurrentSegmentAndWord(list, time) ==
    LET holding == {i \in 1..Len(list) : list[i].start <= time /\ time <= list[i].end}
    IN IF holding = {}
       THEN [segmentId |-> NoId, wordIndex |-> -1]
       ELSE [segmentId |-> list[Least(holding)].id,
             wordIndex |-> WordAt(list[Least(holding)].words, time)]

ResetState ==
    [currentSegmentId |-> NoId, currentWordIndex |-> -1, isPlaying |-> FALSE,
     currentTime |-> 0]

\* the state updateSyncState computes from the element
StateOf(list, time, paused) ==
    LET found == findCurrentSegmentAndWord(list, time)
    IN [currentSegmentId |-> found.segmentId, currentWordIndex |-> found.wordIndex,
        isPlaying |-> ~paused, currentTime |-> time]

\* a stateChanged that takes any difference of the time
stateChanged_AnyTime(state, next) ==
    \/ state.currentSegmentId # next.currentSegmentId
    \/ state.currentWordIndex # next.currentWordIndex
    \/ state.isPlaying # next.isPlaying
    \/ Distance(state.currentTime, next.currentTime) > 0
stateChanged(state, next) ==
    \/ state.currentSegmentId # next.currentSegmentId
    \/ state.currentWordIndex # next.currentWordIndex
    \/ state.isPlaying # next.isPlaying
    \/ Distance(state.currentTime, next.currentTime) > NotifyThreshold

CallbackKinds == {"setSyncState", "stopSync"}
CallsStop == \E k \in 1..Len(callbacks) : callbacks[k] = "stopSync"

\* updateSyncState delivers a notification
Notifies(attached, time, paused) ==
    attached /\ stateChanged(currentState, StateOf(segments, time, paused))

\* notifyCallbacks reaches a callback of kind "stopSync", which calls stopSync()
StopsInside(attached, time, paused) == Notifies(attached, time, paused) /\ CallsStop

\* updateSyncState with this.videoElement set (attached) or null and the
\* element at (time, paused); notifyCallbacks hands this.currentState to each
\* callback; the frame that a stopSync() inside leaves is the caller's to set
updateSyncState(attached, time, paused) ==
    /\ IF Notifies(attached, time, paused)
       THEN /\ currentState' = StateOf(segments, time, paused)
            /\ syncLog' = Append(syncLog, [from |-> "updateSyncState",
                                           state |-> StateOf(segments, time, paused)])
       ELSE UNCHANGED <<currentState, syncLog>>
    /\ videoElement' = (IF attached /\ ~StopsInside(attached, time, paused)
                        THEN "video" ELSE "null")

\* updateLoop: updateSyncState(), then requestAnimationFrame(this.updateLoop);
\* late: a callback after the one that stopped the service got the state
updateLoop(attached, late) ==
    /\ updateSyncState(attached, mediaTime, mediaPaused)
    /\ animationFrameId' = "frame"
    /\ lateDelivery' = (IF StopsInside(attached, mediaTime, mediaPaused)
                        THEN Last(callbacks) # "stopSync" ELSE late)

addCallback ==
    \E callback \in CallbackKinds :
        /\ \A k \in 1..Len(callbacks) : callbacks[k] # callback
        /\ callbacks' = Append(callbacks, callback)
        /\ UNCHANGED <<segments, currentState, animationFrameId, videoElement,
                       mediaTime, mediaPaused, syncLog, lateDelivery, outsideSync>>

\* setSegments: resetSync() with its notifyCallbacks()
setSegments ==
    \E list \in SegmentLists :
        /\ Len(syncLog) < MaxSyncLog
        /\ segments' = list
        /\ currentState' = ResetState
        /\ syncLog' = Append(syncLog, [from |-> "resetSync", state |-> ResetState])
        /\ videoElement' = (IF CallsStop THEN "null" ELSE videoElement)
        /\ animationFrameId' = (IF CallsStop THEN "null" ELSE animationFrameId)
        /\ UNCHANGED <<callbacks, mediaTime, mediaPaused, lateDelivery, outsideSync>>

\* handleVideoReady: startSync(videoElement) with its startUpdateLoop()
startSync ==
    /\ Len(syncLog) < MaxSyncLog
    /\ IF animationFrameId = "null"
       THEN updateLoop(TRUE, FALSE)
       ELSE /\ videoElement' = "video"
            /\ lateDelivery' = FALSE
            /\ UNCHANGED <<currentState, syncLog, animationFrameId>>
    /\ UNCHANGED <<segments, callbacks, mediaTime, mediaPaused, outsideSync>>

\* stopSync: the listeners are removed, stopUpdateLoop()
stopSync ==
    /\ videoElement' = "null"
    /\ animationFrameId' = "null"
    /\ UNCHANGED <<segments, callbacks, currentState, mediaTime, mediaPaused,
                   syncLog, lateDelivery, outsideSync>>

\* the browser runs the requested animation frame
SyncFrame ==
    /\ animationFrameId = "frame"
    /\ updateLoop(videoElement # "null", lateDelivery)
    /\ UNCHANGED <<segments, callbacks, mediaTime, mediaPaused, outsideSync>>

\* the element plays, pauses or is sought: handlePlay, handlePause and
\* handleSeeked call updateSyncState() while the service listens; or its time
\* advances while it plays (handleTimeUpdate does nothing)
MediaEvent ==
    /\ Len(syncLog) < MaxSyncLog
    /\ \/ \E paused \in BOOLEAN : \E time \in MediaTimes :
            /\ paused # mediaPaused \/ time # mediaTime
            /\ paused = mediaPaused \/ time = mediaTime
            /\ mediaPaused' = paused
            /\ mediaTime' = time
            /\ updateSyncState(videoElement # "null", time, paused)
            /\ animationFrameId' =
                 (IF StopsInside(videoElement # "null", time, paused)
                  THEN "null" ELSE animationFrameId)
       \/ /\ ~mediaPaused
          /\ mediaTime < MaxMediaTime
          /\ mediaTime' = mediaTime + 1
          /\ UNCHANGED <<mediaPaused, currentState, animationFrameId, videoElement,
                         syncLog>>
    /\ UNCHANGED <<segments, callbacks, lateDelivery, outsideSync>>

\* the editor before a transcript job was started and before the video is ready
TranscriptEditorMounted ==
    /\ processingJob = NoJob
    /\ progressInterval = FALSE
    /\ serverJob = [id \in JobIds |-> "none"]
    /\ pollsInFlight = <<>>
    /\ segments = <<>>
    /\ callbacks = <<>>
    /\ currentState = ResetState
    /\ animationFrameId = "null"
    /\ videoElement = "null"
    /\ mediaTime = 0
    /\ mediaPaused = TRUE
    /\ syncLog = <<>>
    /\ lateDelivery = FALSE

\* ---------------------------------------------------------- specification
InitEditor ==
    /\ \E l \in InitLists :
         /\ serverDecisions = l
         /\ editDecisions = l          \* edit query: setEditDecisions(data.edit_decisions)
         /\ clips = PreviewClips(l)    \* editPreview query
    /\ undoStack = <<>>
    /\ redoStack = <<>>
    /\ notified = <<StoreState(editDecisions, <<>>, <<>>)>>
    /\ selectedDecisions = <<>>
    /\ editingDecisionId = NoId
    /\ refetchEdit = FALSE
    /\ refetchPreview = FALSE
    /\ lastOp = "load"
    /\ lastArgs = <<>>
    /\ nOps = 0

InitRoundTripOff ==
    /\ rtPhase = "off"
    /\ rtOrig = <<>>
    /\ rtFinal = <<>>
    /\ rtN = 0
    /\ rtUndone = 0
    /\ rtRedone = 0

Init == InitEditor /\ InitRoundTripOff /\ TranscriptEditorMounted /\ PlayerInitialState

ToggleInclusion ==
    \E id \in DecisionIds :
        /\ DialogClosed /\ OpsLeft
        /\ toggleDecisionInclusion(id)
        /\ lastOp' = "toggle"
        /\ lastArgs' = <<>>
        /\ nOps' = nOps + 1
        /\ UNCHANGED <<pageVars, rtVars, transcriptVars, playerVars>>

Reorder ==
    \E i \in 1..(Len(editDecisions) - 1) :
        /\ DialogClosed /\ OpsLeft
        /\ reorderDecisions(MoveDown(editDecisions, i))
        /\ lastOp' = "reorder"
        /\ lastArgs' = <<>>
        /\ nOps' = nOps + 1
        /\ UNCHANGED <<pageVars, rtVars, transcriptVars, playerVars>>

Update ==
    \E id \in DecisionIds : \E u \in Updates(id) :
        /\ DialogClosed /\ OpsLeft
        /\ updateDecision(id, u)
        /\ lastOp' = "update"
        /\ lastArgs' = <<>>
        /\ nOps' = nOps + 1
        /\ UNCHANGED <<pageVars, rtVars, transcriptVars, playerVars>>

Remove ==
    \E id \in DecisionIds :
        /\ DialogClosed /\ OpsLeft
        /\ removeDecision(id)
        /\ lastOp' = "remove"
        /\ lastArgs' = <<>>
        /\ nOps' = nOps + 1
        /\ UNCHANGED <<pageVars, rtVars, transcriptVars, playerVars>>

Undo ==
    /\ DialogClosed /\ OpsLeft
    /\ undo
    /\ lastOp' = "undo"
    /\ lastArgs' = <<>>
    /\ nOps' = nOps + 1
    /\ UNCHANGED <<pageVars, rtVars, transcriptVars, playerVars>>

Redo ==
    /\ DialogClosed /\ OpsLeft
    /\ redo
    /\ lastOp' = "redo"
    /\ lastArgs' = <<>>
    /\ nOps' = nOps + 1
    /\ UNCHANGED <<pageVars, rtVars, transcriptVars, playerVars>>

\* onEditDecision: open the trim dialog on a decision of the list
OpenTrim ==
    \E id \in DecisionIds :
        /\ DialogClosed
        /\ HasId(editDecisions, id)
        /\ OpsLeft
        /\ editingDecisionId' = id
        /\ lastOp' = "openTrim"
        /\ lastArgs' = <<>>
        /\ nOps' = nOps + 1
        /\ UNCHANGED <<storeVars, clips, refetchEdit, refetchPreview,
                       serverDecisions, rtVars, transcriptVars, playerVars>>

\* onClose (Cancel)
CloseTrim ==
    /\ ~DialogClosed /\ OpsLeft
    /\ editingDecisionId' = NoId
    /\ lastOp' = "closeTrim"
    /\ lastArgs' = <<>>
    /\ nOps' = nOps + 1
    /\ UNCHANGED <<storeVars, clips, refetchEdit, refetchPreview,
                   serverDecisions, rtVars, transcriptVars, playerVars>>

TrimSave ==
    \E t \in TrimInputs(editingDecisionId) :
        /\ ~DialogClosed /\ OpsLeft
        /\ handleSave(t[1], t[2])
        /\ lastOp' = "trimSave"
        /\ lastArgs' = t
        /\ nOps' = nOps + 1
        /\ UNCHANGED <<clips, refetchEdit, refetchPreview, serverDecisions, rtVars, transcriptVars, playerVars>>

\* saveMutation: the modified decisions are sent, then both queries are
\* invalidated
SaveDraft ==
    /\ DialogClosed
    /\ OpsLeft
    /\ serverDecisions' = ServerAfterSave(serverDecisions, editDecisions)
    /\ refetchEdit' = TRUE
    /\ refetchPreview' = TRUE
    /\ nOps' = nOps + 1
    /\ lastOp' = "save"
    /\ lastArgs' = <<>>
    /\ UNCHANGED <<storeVars, editingDecisionId, clips, rtVars, transcriptVars, playerVars>>

\* the ['edit', ...] query function completes
RefetchEditDone ==
    /\ refetchEdit
    /\ setEditDecisions(serverDecisions)
    /\ refetchEdit' = FALSE
    /\ lastOp' = "refetchEdit"
    /\ lastArgs' = <<>>
    /\ UNCHANGED <<editingDecisionId, clips, refetchPreview, serverDecisions,
                   countVars, rtVars, transcriptVars, playerVars>>

\* the ['editPreview', ...] query completes: new clips prop of the player
RefetchPreviewDone ==
    /\ refetchPreview
    /\ clips' = PreviewClips(serverDecisions)
    /\ refetchPreview' = FALSE
    /\ lastOp' = "refetchPreview"
    /\ lastArgs' = <<>>
    /\ UNCHANGED <<storeVars, editingDecisionId, refetchEdit, serverDecisions,
                   countVars, rtVars, transcriptVars, playerVars>>

Next ==
    \/ ToggleInclusion
    \/ Reorder
    \/ Update
    \/ Remove
    \/ Undo
    \/ Redo
    \/ OpenTrim
    \/ CloseTrim
    \/ TrimSave
    \/ SaveDraft
    \/ RefetchEditDone
    \/ RefetchPreviewDone

Spec == Init /\ [][Next]_vars

\* ------------------------------------------- transcript editor specifications
\* the transcript editor is another page than the EDL editor: no EDL is loaded
InitTranscriptEditor == Init /\ editDecisions = <<>>

NextPolling ==
    \/ generateTranscript
    \/ JobEnds
    \/ PollTick
    \/ PollResponse

SpecPolling == InitTranscriptEditor /\ [][NextPolling]_vars

NextSync ==
    \/ addCallback
    \/ setSegments
    \/ startSync
    \/ stopSync
    \/ SyncFrame
    \/ MediaEvent

SpecSync == InitTranscriptEditor /\ [][NextSync]_vars

\* ------------------------------------ editor page with the player's reports
\* the player calls onTimeUpdate(time, clipIndex) / onClipChange(clipIndex) for
\* a clip of its list; the page passes the index to setCurrentClipIndex, and
\* lastArgs holds the store's currentClipIndex
ClipReported ==
    \E clipIndex \in 0..(Len(clips) - 1) :
        /\ lastOp # "clipChange"
        /\ lastOp' = "clipChange"
        /\ lastArgs' = <<clipIndex>>
        /\ UNCHANGED <<storeVars, pageVars, countVars, rtVars, transcriptVars, playerVars>>

\* TranscriptTimeline: the ids of the cards rendered with isCurrentlyPlaying
HighlightedIds(showExcluded, index) ==
    {editDecisions[k].id : k \in {j \in 1..Len(editDecisions) :
        /\ showExcluded \/ editDecisions[j].is_included
        /\ editDecisions[j].order_index = index}}

NextTimeline == Next \/ ClipReported

SpecTimeline == Init /\ [][NextTimeline]_vars

\* ------------------------------------------ editor page with the selection
\* what one EDL command makes of a store state: saveToHistory(), then set()
\* with the new list
AfterCommand(st, list) ==
    StoreState(list, Append(st.undoStack, st.editDecisions), <<>>)

ToggledList(list, decisionId) ==
    [i \in 1..Len(list) |->
        IF list[i].id = decisionId
        THEN [list[i] EXCEPT !.is_included = ~list[i].is_included,
                             !.user_modified = TRUE]
        ELSE list[i]]

\* selectedDecisions.forEach(id => removeDecision(id))
RECURSIVE RemoveEach(_, _)
RemoveEach(ids, st) ==
    IF ids = <<>> THEN st
    ELSE RemoveEach(Tail(ids),
                    AfterCommand(st, WithoutId(st.editDecisions, Head(ids))))

\* selectedDecisions.forEach(id => toggleDecisionInclusion(id))
RECURSIVE ToggleEach(_, _)
ToggleEach(ids, st) ==
    IF ids = <<>> THEN st
    ELSE ToggleEach(Tail(ids),
                    AfterCommand(st, ToggledList(st.editDecisions, Head(ids))))

StoreNow == StoreState(editDecisions, undoStack, redoStack)

\* the ids of the cards the timeline renders
RECURSIVE VisibleIds(_, _)
VisibleIds(list, showExcluded) ==
    IF list = <<>> THEN <<>>
    ELSE IF showExcluded \/ Head(list).is_included
         THEN <<Head(list).id>> \o VisibleIds(Tail(list), showExcluded)
         ELSE VisibleIds(Tail(list), showExcluded)

\* the checkbox of a segment card
ToggleSelection ==
    \E id \in DecisionIds :
        /\ DialogClosed /\ OpsLeft
        /\ HasId(editDecisions, id)
        /\ toggleDecisionSelection(id)
        /\ lastOp' = "select"
        /\ lastArgs' = <<>>
        /\ nOps' = nOps + 1
        /\ UNCHANGED <<pageVars, rtVars, transcriptVars, playerVars>>

\* handleSelectAll, with excluded decisions shown or hidden
SelectAll ==
    \E showExcluded \in BOOLEAN :
        /\ DialogClosed /\ OpsLeft
        /\ IF Len(selectedDecisions) = Len(VisibleIds(editDecisions, showExcluded))
           THEN clearSelection
           ELSE selectMultiple(VisibleIds(editDecisions, showExcluded))
        /\ lastOp' = "selectAll"
        /\ lastArgs' = <<>>
        /\ nOps' = nOps + 1
        /\ UNCHANGED <<pageVars, rtVars, transcriptVars, playerVars>>

\* handleDeleteSelected, confirmed: the commands, then clearSelection()
DeleteSelected ==
    /\ DialogClosed /\ OpsLeft
    /\ selectedDecisions # <<>>
    /\ editDecisions' = RemoveEach(selectedDecisions, StoreNow).editDecisions
    /\ undoStack' = RemoveEach(selectedDecisions, StoreNow).undoStack
    /\ redoStack' = RemoveEach(selectedDecisions, StoreNow).redoStack
    /\ selectedDecisions' = <<>>
    /\ Notify
    /\ lastOp' = "deleteSelected"
    /\ lastArgs' = <<>>
    /\ nOps' = nOps + 1
    /\ UNCHANGED <<pageVars, rtVars, transcriptVars, playerVars>>

\* handleToggleInclusionSelected
ToggleInclusionSelected ==
    /\ DialogClosed /\ OpsLeft
    /\ selectedDecisions # <<>>
    /\ editDecisions' = ToggleEach(selectedDecisions, StoreNow).editDecisions
    /\ undoStack' = ToggleEach(selectedDecisions, StoreNow).undoStack
    /\ redoStack' = ToggleEach(selectedDecisions, StoreNow).redoStack
    /\ notified' = <<StoreState(ToggleEach(Front(selectedDecisions), StoreNow).editDecisions,
                                undoStack', redoStack'),
                     StoreState(editDecisions', undoStack', redoStack')>>
    /\ UNCHANGED selectedDecisions
    /\ lastOp' = "toggleSelected"
    /\ lastArgs' = selectedDecisions
    /\ nOps' = nOps + 1
    /\ UNCHANGED <<pageVars, rtVars, transcriptVars, playerVars>>

NextSelection ==
    \/ Next
    \/ ToggleSelection
    \/ SelectAll
    \/ DeleteSelected
    \/ ToggleInclusionSelected

SpecSelection == Init /\ [][NextSelection]_vars

\* ------------------------------------------- round-trip scenario (driver)
\* N commands, then N undos, then N redos, on a freshly loaded list.
InitRoundTrip ==
    /\ InitEditor
    /\ rtPhase = "mutate"
    /\ rtOrig = editDecisions
    /\ rtFinal = <<>>
    /\ rtN = 0
    /\ rtUndone = 0
    /\ rtRedone = 0
    /\ TranscriptEditorMounted
    /\ PlayerInitialState

RTCommand ==
    /\ rtPhase = "mutate"
    /\ rtN < MaxRoundTrip
    /\ \/ \E id \in DecisionIds :
            toggleDecisionInclusion(id) /\ lastOp' = "toggle"
       \/ \E i \in 1..(Len(editDecisions) - 1) :
            reorderDecisions(MoveDown(editDecisions, i)) /\ lastOp' = "reorder"
       \/ \E id \in DecisionIds : \E u \in Updates(id) :
            updateDecision(id, u) /\ lastOp' = "update"
       \/ \E id \in DecisionIds :
            removeDecision(id) /\ lastOp' = "remove"
    /\ rtN' = rtN + 1
    /\ UNCHANGED <<pageVars, lastArgs, countVars, rtPhase, rtOrig, rtFinal,
                   rtUndone, rtRedone, transcriptVars, playerVars>>

RTUndo ==
    /\ rtPhase \in {"mutate", "undo"}
    /\ rtUndone < rtN
    /\ undo
    /\ rtPhase' = "undo"
    /\ rtFinal' = IF rtPhase = "mutate" THEN editDecisions ELSE rtFinal
    /\ rtUndone' = rtUndone + 1
    /\ lastOp' = "undo"
    /\ UNCHANGED <<pageVars, lastArgs, countVars, rtOrig, rtN, rtRedone,
                   transcriptVars, playerVars>>

RTRedo ==
    /\ rtPhase \in {"undo", "redo"}
    /\ rtUndone = rtN
    /\ rtRedone < rtN
    /\ redo
    /\ rtPhase' = "redo"
    /\ rtRedone' = rtRedone + 1
    /\ lastOp' = "redo"
    /\ UNCHANGED <<pageVars, lastArgs, countVars, rtOrig, rtFinal, rtN, rtUndone,
                   transcriptVars, playerVars>>

NextRoundTrip == RTCommand \/ RTUndo \/ RTRedo

SpecRoundTrip == InitRoundTrip /\ [][NextRoundTrip]_vars

RECURSIVE SumDurations(_)
SumDurations(cs) ==
    IF cs = <<>> THEN 0 ELSE Head(cs).duration + SumDurations(Tail(cs))

\* clips.reduce((sum, clip) => sum + clip.duration, 0)
totalDuration == SumDurations(clips)

\* a sum that takes the clip at clipIndex in: clips.slice(0, clipIndex + 1)
getAccumulatedTime_Inclusive(clipIndex) ==
    SumDurations(SubSeq(clips, 1, IF clipIndex + 1 < Len(clips) THEN clipIndex + 1 ELSE Len(clips)))

\* clips.slice(0, clipIndex).reduce(...)
getAccumulatedTime(clipIndex) ==
    SumDurations(SubSeq(clips, 1, IF clipIndex < Len(clips) THEN clipIndex ELSE Len(clips)))


NumClips == Len(clips)
\* clips[i] of the code (0-based)
ClipAt(i) == clips[i + 1]
UrlOf(i) == ClipAt(i).clip_url

\* ------------------------------------------------------- <video> element
\* the source of the unified stream (hlsManifestUrl); clip urls are ids >= 1
ManifestSrc == -1

\* length of the media behind a source url
MediaDuration(src) ==
    IF src = ManifestSrc THEN SumDurations(clips)
    ELSE IF \E k \in 1..Len(clips) : clips[k].clip_url = src
    THEN clips[CHOOSE k \in 1..Len(clips) : clips[k].clip_url = src].duration
    ELSE 0

\* video.currentTime = t: the element keeps the position inside its media
ClampTime(t, src) ==
    IF t < 0 THEN 0 ELSE IF t > MediaDuration(src) THEN MediaDuration(src) ELSE t

\* the element renders frames: not paused, data available, not at its end
ElementPlaying == vSrc # 0 /\ ~vPaused /\ vReady >= 3 /\ ~vEnded

\* ---------------------------------------------------------- handleSeek
\* for (i = 0; i < clips.length; i++) { if (t < acc + d) { target = i; break }
\*   acc += d }: <<targetClipIndex, accumulatedTime>>
\* a walk that leaves a boundary to the clip before it (<= for <)
RECURSIVE SeekWalk_BoundaryBefore(_, _, _)
SeekWalk_BoundaryBefore(t, i, acc) ==
    IF i >= NumClips THEN <<0, acc>>
    ELSE IF t <= acc + ClipAt(i).duration THEN <<i, acc>>
         ELSE SeekWalk_BoundaryBefore(t, i + 1, acc + ClipAt(i).duration)

RECURSIVE SeekWalk(_, _, _)
SeekWalk(t, i, acc) ==
    IF i >= NumClips THEN <<0, acc>>
    ELSE IF t < acc + ClipAt(i).duration THEN <<i, acc>>
         ELSE SeekWalk(t, i + 1, acc + ClipAt(i).duration)

SeekTargetIndex(t) == SeekWalk(t, 0, 0)[1]
SeekLocalTime(t) == t - SeekWalk(t, 0, 0)[2]

\* ------------------------------------------------- clip load effect
\* the effect on [isHlsMode, clips, currentClipIndex] sets a new src
NeedsLoad(idx) == ~isHlsMode /\ idx < NumClips /\ vSrc # UrlOf(idx)

EffectListener(autoplay) == [kind |-> "effect", autoplay |-> autoplay]
AttemptPlayListener == [kind |-> "attemptPlay", autoplay |-> TRUE]
PlayFrame == [kind |-> "play", autoplay |-> TRUE]

\* a load effect that does not resume: const shouldAutoPlay = false
ShouldAutoPlay_NoResume == FALSE

\* const shouldAutoPlay = intendedPlayingRef.current
ShouldAutoPlay == intendedPlaying

\* video.src = url; video.currentTime = 0; video.load(): the element drops
\* what it was doing (paused, pending play() promises rejected, no data) and
\* onLoadedData, which remembers intendedPlayingRef, waits for loadeddata
LoadClip(idx) ==
    /\ isLoadingClip' = TRUE
    /\ vSrc' = UrlOf(idx)
    /\ vTime' = 0
    /\ vReady' = 0
    /\ vPaused' = TRUE
    /\ vEnded' = FALSE
    /\ nPlayPromises' = 0
    /\ listeners' = Append(listeners, EffectListener(ShouldAutoPlay))

\* ---------------------------------------------------- user: play / pause
\* togglePlayPause
togglePlayPause ==
    IF ~firstClipReady
    THEN UNCHANGED <<isPlaying, intendedPlaying, vPaused, nPlayPromises,
                     frames, listeners>>
    ELSE IF isPlaying
    THEN /\ vPaused' = TRUE             \* video.pause() rejects pending play()
         /\ nPlayPromises' = 0
         /\ isPlaying' = FALSE
         /\ intendedPlaying' = FALSE
         /\ UNCHANGED <<frames, listeners>>
    ELSE /\ intendedPlaying' = TRUE
         /\ IF vReady >= 2
            THEN /\ frames' = Append(frames, PlayFrame)
                 /\ UNCHANGED listeners
            ELSE /\ listeners' = Append(listeners, AttemptPlayListener)
                 /\ UNCHANGED frames
         /\ UNCHANGED <<isPlaying, vPaused, nPlayPromises>>

TogglePlayPause ==
    /\ NumClips > 0
    /\ PlayerOpsLeft
    /\ togglePlayPause
    /\ nOps' = nOps + 1
    /\ seekObs' = NoSeek
    /\ autoAdvance' = -1
    /\ endedAwaitPlay' = (endedAwaitPlay /\ (~firstClipReady \/ isPlaying))
    /\ lastToggle' = [kind |-> IF firstClipReady /\ isPlaying THEN "pause" ELSE "play",
                      ready |-> vReady >= 2,
                      gated |-> ~firstClipReady,
                      served |-> FALSE]
    /\ UNCHANGED <<storeVars, pageVars, obsVars, rtVars, transcriptVars, envVars, currentClipIndex, currentTime,
                   isSeeking, isLoadingClip, firstClipReady, bufferReady,
                   preloadCache, isHlsMode, preloadVars, vSrc, vTime, vReady,
                   vEnded, timers, switchObs>>

\* ------------------------------------------------------------ user: seek
SeekTimer(delay, write, local) == [delay |-> delay, write |-> write, local |-> local]

\* handleSeek(newGlobalTime)
handleSeek(t) ==
    /\ isSeeking' = TRUE
    /\ IF isHlsMode
       THEN /\ vTime' = ClampTime(t, vSrc)
            /\ vEnded' = (vEnded /\ ClampTime(t, vSrc) >= MediaDuration(vSrc))
            /\ timers' = Append(timers, SeekTimer(SeekDelayCross, FALSE, 0))
            /\ UNCHANGED <<currentClipIndex, isLoadingClip, vSrc, vReady, vPaused,
                           nPlayPromises, listeners>>
       ELSE IF SeekTargetIndex(t) # currentClipIndex
       THEN /\ currentClipIndex' = SeekTargetIndex(t)
            /\ timers' = Append(timers, SeekTimer(SeekDelayCross, TRUE, SeekLocalTime(t)))
            /\ IF NeedsLoad(SeekTargetIndex(t))
               THEN LoadClip(SeekTargetIndex(t))
               ELSE UNCHANGED <<isLoadingClip, vSrc, vTime, vReady, vPaused, vEnded,
                                nPlayPromises, listeners>>
       ELSE /\ vTime' = ClampTime(SeekLocalTime(t), vSrc)
            /\ vEnded' = (vEnded /\ ClampTime(SeekLocalTime(t), vSrc) >= MediaDuration(vSrc))
            /\ timers' = Append(timers, SeekTimer(SeekDelaySame, FALSE, 0))
            /\ UNCHANGED <<currentClipIndex, isLoadingClip, vSrc, vReady, vPaused,
                           nPlayPromises, listeners>>

\* positions the user drags the progress slider to (2.5 s, 5.5 s, 6.5 s)
SeekTargets == {50, 110, 130}

\* the play / pause state the user sees: playing, paused (never started,
\* paused by the user, or ended), or a requested play that has not started
PlayStateNow ==
    IF isPlaying /\ ElementPlaying THEN "playing"
    ELSE IF ~isPlaying /\ vPaused
            /\ (endedAwaitPlay \/ lastToggle.kind \in {"none", "pause"}) THEN "paused"
    ELSE "starting"

Seek ==
    \E t \in SeekTargets :
        /\ NumClips > 0
        /\ PlayerOpsLeft
        /\ t <= totalDuration         \* Slider max = totalDuration
        /\ handleSeek(t)
        /\ nOps' = nOps + 1
        /\ seekObs' = [goal |-> <<SeekTargetIndex(t), SeekLocalTime(t)>>,
                       cross |-> (SeekTargetIndex(t) # currentClipIndex),
                       overlap |-> (timers # <<>>),
                       loading |-> (SeekTargetIndex(t) # currentClipIndex \/ vReady < 2),
                       was |-> PlayStateNow]
        /\ autoAdvance' = -1
        /\ endedAwaitPlay' = FALSE
        /\ switchObs' = NoSwitch
        /\ UNCHANGED <<storeVars, pageVars, obsVars, rtVars, transcriptVars, envVars, lastToggle, isPlaying, currentTime,
                       firstClipReady, bufferReady, intendedPlaying, preloadCache,
                       isHlsMode, preloadVars, frames>>

\* a setTimeout callback of handleSeek runs; a timer waits for the timers set
\* before it that are due no later
TimerDue(k) == \A j \in 1..(k - 1) : timers[j].delay > timers[k].delay

RemoveAt(seq, k) == SubSeq(seq, 1, k - 1) \o SubSeq(seq, k + 1, Len(seq))

SeekTimerFires ==
    \E k \in 1..Len(timers) :
        /\ TimerDue(k)
        /\ IF timers[k].write
           THEN /\ vTime' = ClampTime(timers[k].local, vSrc)
                /\ vEnded' = (vEnded /\ ClampTime(timers[k].local, vSrc) >= MediaDuration(vSrc))
           ELSE UNCHANGED <<vTime, vEnded>>
        /\ isSeeking' = FALSE
        /\ timers' = RemoveAt(timers, k)
        /\ UNCHANGED <<storeVars, pageVars, obsVars, rtVars, transcriptVars, envVars, countVars, currentClipIndex,
                       isPlaying, currentTime, isLoadingClip, firstClipReady,
                       bufferReady, intendedPlaying, preloadCache, isHlsMode,
                       preloadVars, vSrc, vReady, vPaused, listeners, frames,
                       nPlayPromises, playerObsVars>>


\* --------------------------------------------------- media element events
\* loadeddata: every pending { once: true } listener runs, in the order added
\* an attemptPlay that never calls video.play()
FrameOf_NoPlay(l) == EffectListener(IF l.kind = "effect" THEN l.autoplay ELSE FALSE)

FrameOf(l) == IF l.kind = "effect" THEN EffectListener(l.autoplay) ELSE PlayFrame

MediaLoaded ==
    /\ vSrc # 0
    /\ vSrc \notin failing
    /\ vReady = 0
    /\ vReady' = 4
    \* onLoadedData of the load effect: video.currentTime = 0
    /\ vTime' = IF \E k \in 1..Len(listeners) : listeners[k].kind = "effect"
                THEN 0 ELSE vTime
    /\ frames' = frames \o [k \in 1..Len(listeners) |-> FrameOf(listeners[k])]
    /\ listeners' = <<>>
    /\ UNCHANGED <<storeVars, pageVars, obsVars, rtVars, transcriptVars, envVars, countVars, reactVars, preloadVars,
                   vSrc, vPaused, vEnded, nPlayPromises, timers, playerObsVars>>

\* number of video.play() calls the queued callbacks make
PlayCalls(fs) == Cardinality({k \in 1..Len(fs) : fs[k].kind = "play" \/ fs[k].autoplay})

\* the browser runs the requestAnimationFrame callbacks queued so far
AnimationFrame ==
    /\ frames # <<>>
    /\ frames' = <<>>
    /\ isLoadingClip' = IF \E k \in 1..Len(frames) : frames[k].kind = "effect"
                        THEN FALSE ELSE isLoadingClip
    /\ IF PlayCalls(frames) > 0
       THEN /\ vPaused' = FALSE
            /\ nPlayPromises' = nPlayPromises + PlayCalls(frames)
            \* play() on media that ended starts over
            /\ vTime' = IF vEnded THEN 0 ELSE vTime
            /\ vEnded' = FALSE
       ELSE UNCHANGED <<vPaused, nPlayPromises, vTime, vEnded>>
    /\ UNCHANGED <<storeVars, pageVars, obsVars, rtVars, transcriptVars, envVars, countVars, currentClipIndex,
                   isPlaying, currentTime, isSeeking, firstClipReady, bufferReady,
                   intendedPlaying, preloadCache, isHlsMode, preloadVars, vSrc,
                   vReady, listeners, timers, playerObsVars>>

\* playback has begun: the pending play() promises resolve, .then(setIsPlaying(true))
PlayStarts ==
    /\ nPlayPromises > 0
    /\ ElementPlaying
    /\ nPlayPromises' = 0
    /\ isPlaying' = TRUE
    /\ lastToggle' = [lastToggle EXCEPT !.served = TRUE]
    /\ UNCHANGED <<storeVars, pageVars, obsVars, rtVars, transcriptVars, envVars, countVars, currentClipIndex,
                   currentTime, isSeeking, isLoadingClip, firstClipReady,
                   bufferReady, intendedPlaying, preloadCache, isHlsMode,
                   preloadVars, videoVars, listeners, frames, timers,
                   seekObs, autoAdvance, endedAwaitPlay, switchObs>>

\* ------------------------------------------------------ handleTimeUpdate
\* setCurrentTime(...)
TimeUpdateCurrentTime(localTime) ==
    IF isHlsMode THEN localTime ELSE getAccumulatedTime(currentClipIndex) + localTime

\* for (i = 0; i < clips.length; i++) { if (localTime < acc + d) { idx = i;
\*   break } acc += d }: idx
RECURSIVE HlsWalk(_, _, _)
HlsWalk(localTime, i, acc) ==
    IF i >= NumClips THEN 0
    ELSE IF localTime < acc + ClipAt(i).duration THEN i
         ELSE HlsWalk(localTime, i + 1, acc + ClipAt(i).duration)

\* HLS: clip index of the absolute time
TimeUpdateClipIndex(localTime) ==
    IF isHlsMode THEN HlsWalk(localTime, 0, 0) ELSE currentClipIndex

\* currentClip && localTime >= currentClip.duration * 0.5
NeedsBuffer(localTime) ==
    /\ ~isHlsMode
    /\ currentClipIndex < NumClips
    /\ 2 * localTime >= ClipAt(currentClipIndex).duration

\* the clips ahead a detached <video> is created for
BufferTargets(localTime) ==
    IF NeedsBuffer(localTime)
    THEN {t \in {currentClipIndex + offset : offset \in 1..BUFFER_SIZE} :
             t < NumClips /\ t \notin preloadCache}
    ELSE {}

RollAfterTimeUpdate(localTime) ==
    [i \in PreloadIdx |->
        IF i \in BufferTargets(localTime) /\ inflightRoll[i] < MaxInflight
        THEN inflightRoll[i] + 1 ELSE inflightRoll[i]]

\* preloadCacheRef.current.forEach: delete index < currentClipIndex - 2
CacheAfterTimeUpdate(localTime) ==
    IF NeedsBuffer(localTime)
    THEN {i \in preloadCache : ~(i < currentClipIndex - BehindKeep)}
    ELSE preloadCache

\* onTimeUpdate?.(globalTime, currentClipIndex): the first value after a clip
\* switch is kept for observation
AwaitsFirstTime == switchObs.to # -1 /\ switchObs.first = -1

SwitchAfterEmit(localTime) ==
    IF AwaitsFirstTime
    THEN [switchObs EXCEPT !.first = TimeUpdateCurrentTime(localTime),
                           !.at = <<currentClipIndex, localTime>>]
    ELSE switchObs

\* a timeupdate event with the element at its present position (after a seek
\* or a load)
TimeUpdate ==
    /\ vSrc # 0
    /\ vReady >= 1
    /\ ~vEnded                \* ended is the last event of a playback
    /\ \/ currentTime # TimeUpdateCurrentTime(vTime)
       \/ currentClipIndex # TimeUpdateClipIndex(vTime)
       \/ inflightRoll # RollAfterTimeUpdate(vTime)
       \/ preloadCache # CacheAfterTimeUpdate(vTime)
       \/ AwaitsFirstTime
    /\ switchObs' = SwitchAfterEmit(vTime)
    /\ currentTime' = TimeUpdateCurrentTime(vTime)
    /\ currentClipIndex' = TimeUpdateClipIndex(vTime)
    /\ inflightRoll' = RollAfterTimeUpdate(vTime)
    /\ preloadCache' = CacheAfterTimeUpdate(vTime)
    /\ UNCHANGED <<storeVars, pageVars, obsVars, rtVars, transcriptVars, envVars, countVars, isPlaying, isSeeking,
                   isLoadingClip, firstClipReady, bufferReady, intendedPlaying,
                   isHlsMode, loadedCount, inflightInit, videoVars, pendingVars,
                   seekObs, autoAdvance, endedAwaitPlay, lastToggle>>

\* the media plays on for seconds; the page is visible, so the animation frame
\* callbacks queued before (run within one display frame) and the settling of
\* play() have happened by then
PlaybackRuns == ElementPlaying /\ nPlayPromises = 0 /\ frames = <<>>

\* playback reaches the middle of the media, timeupdate fires there
MidPoint(src) == MediaDuration(src) \div 2

PlaybackProgress ==
    /\ PlaybackRuns
    /\ vTime < MidPoint(vSrc)
    /\ vTime' = MidPoint(vSrc)
    /\ currentTime' = TimeUpdateCurrentTime(MidPoint(vSrc))
    /\ currentClipIndex' = TimeUpdateClipIndex(MidPoint(vSrc))
    /\ inflightRoll' = RollAfterTimeUpdate(MidPoint(vSrc))
    /\ preloadCache' = CacheAfterTimeUpdate(MidPoint(vSrc))
    /\ seekObs' = NoSeek
    /\ switchObs' = SwitchAfterEmit(MidPoint(vSrc))
    /\ UNCHANGED <<storeVars, pageVars, obsVars, rtVars, transcriptVars, envVars, countVars, lastToggle, isPlaying, isSeeking,
                   isLoadingClip, firstClipReady, bufferReady, intendedPlaying,
                   isHlsMode, loadedCount, inflightInit, vSrc, vReady, vPaused,
                   vEnded, pendingVars, autoAdvance, endedAwaitPlay>>


\* the media plays to its end: the last timeupdate, then ended -> handleVideoEnd
VideoEnded ==
    /\ PlaybackRuns
    /\ inflightRoll' = RollAfterTimeUpdate(MediaDuration(vSrc))
    /\ preloadCache' = CacheAfterTimeUpdate(MediaDuration(vSrc))
    /\ IF isHlsMode
       THEN /\ isPlaying' = FALSE
            /\ currentTime' = TimeUpdateCurrentTime(MediaDuration(vSrc))
            /\ currentClipIndex' = TimeUpdateClipIndex(MediaDuration(vSrc))
            /\ vTime' = MediaDuration(vSrc)
            /\ vEnded' = TRUE
            /\ vPaused' = TRUE
            /\ UNCHANGED <<isLoadingClip, vSrc, vReady, nPlayPromises, listeners>>
       ELSE IF currentClipIndex < NumClips - 1
       THEN /\ currentClipIndex' = currentClipIndex + 1
            /\ currentTime' = TimeUpdateCurrentTime(MediaDuration(vSrc))
            /\ LoadClip(currentClipIndex + 1)
            /\ UNCHANGED isPlaying
       ELSE /\ isPlaying' = FALSE
            /\ currentClipIndex' = 0
            /\ currentTime' = 0
            /\ IF NeedsLoad(0)
               THEN LoadClip(0)
               ELSE /\ vTime' = MediaDuration(vSrc)
                    /\ vEnded' = TRUE
                    /\ vPaused' = TRUE
                    /\ UNCHANGED <<isLoadingClip, vSrc, vReady, nPlayPromises,
                                   listeners>>
    /\ seekObs' = NoSeek
    /\ autoAdvance' = IF ~isHlsMode /\ currentClipIndex < NumClips - 1 /\ intendedPlaying
                      THEN currentClipIndex + 1 ELSE -1
    /\ endedAwaitPlay' = (~isHlsMode /\ ~(currentClipIndex < NumClips - 1))
    /\ switchObs' = IF ~isHlsMode /\ currentClipIndex < NumClips - 1
                    THEN [to |-> currentClipIndex + 1,
                          last |-> TimeUpdateCurrentTime(MediaDuration(vSrc)),
                          first |-> -1, at |-> <<>>]
                    ELSE NoSwitch
    /\ UNCHANGED lastToggle
    /\ UNCHANGED <<storeVars, pageVars, obsVars, rtVars, transcriptVars, envVars, countVars, isSeeking,
                   firstClipReady, bufferReady, intendedPlaying, isHlsMode,
                   loadedCount, inflightInit, frames, timers>>

\* ------------------------------------------------------------ preloading
\* Math.min(BUFFER_SIZE, clips.length)
clipsToPreload == IF BUFFER_SIZE < NumClips THEN BUFFER_SIZE ELSE NumClips

\* canplaythrough of a <video> of the preload effect: onCanPlay
PreloadCanPlay ==
    \E index \in inflightInit :
        /\ UrlOf(index) \notin failing
        /\ inflightInit' = inflightInit \ {index}
        /\ preloadCache' = preloadCache \cup {index}
        /\ loadedCount' = loadedCount + 1
        /\ firstClipReady' = (firstClipReady \/ index = 0)
        /\ bufferReady' = (bufferReady \/ loadedCount + 1 >= clipsToPreload)
        /\ UNCHANGED <<storeVars, pageVars, obsVars, rtVars, transcriptVars, envVars, countVars, currentClipIndex,
                       isPlaying, currentTime, isSeeking, isLoadingClip,
                       intendedPlaying, isHlsMode, inflightRoll, videoVars,
                       pendingVars, playerObsVars>>

\* canplaythrough of a <video> created by the rolling buffer
RollCanPlay ==
    \E targetIndex \in PreloadIdx :
        /\ inflightRoll[targetIndex] > 0
        /\ UrlOf(targetIndex) \notin failing
        /\ inflightRoll' = [inflightRoll EXCEPT ![targetIndex] = @ - 1]
        /\ preloadCache' = preloadCache \cup {targetIndex}
        /\ UNCHANGED <<storeVars, pageVars, obsVars, rtVars, transcriptVars, envVars, countVars, currentClipIndex,
                       isPlaying, currentTime, isSeeking, isLoadingClip,
                       firstClipReady, bufferReady, intendedPlaying, isHlsMode,
                       loadedCount, inflightInit, videoVars, pendingVars,
                       playerObsVars>>

\* --------------------------------------------------- player specification
\* the player right after it mounted with n clips: the preload effect started
\* the first clips, the load effect put clip 0 into the <video>
MountedWithClips(counts) ==
    /\ \E n \in counts :
         /\ serverDecisions = InitialList(n, n)
         /\ editDecisions = InitialList(n, n)
         /\ clips = PreviewClips(InitialList(n, n))
    /\ undoStack = <<>>
    /\ redoStack = <<>>
    /\ notified = <<StoreState(editDecisions, <<>>, <<>>)>>
    /\ selectedDecisions = <<>>
    /\ editingDecisionId = NoId
    /\ refetchEdit = FALSE
    /\ refetchPreview = FALSE
    /\ lastOp = "mount"
    /\ lastArgs = <<>>
    /\ nOps = 0
    /\ InitRoundTripOff
    /\ TranscriptEditorMounted
    /\ currentClipIndex = 0
    /\ isPlaying = FALSE
    /\ currentTime = 0
    /\ isSeeking = FALSE
    /\ isLoadingClip = TRUE
    /\ firstClipReady = FALSE
    /\ bufferReady = FALSE
    /\ intendedPlaying = FALSE
    /\ preloadCache = {}
    /\ isHlsMode = FALSE
    /\ loadedCount = 0
    /\ inflightInit = 0..(clipsToPreload - 1)
    /\ inflightRoll = [i \in PreloadIdx |-> 0]
    /\ vSrc = UrlOf(0)
    /\ vTime = 0
    /\ vReady = 0
    /\ vPaused = TRUE
    /\ vEnded = FALSE
    /\ listeners = <<EffectListener(FALSE)>>
    /\ frames = <<>>
    /\ nPlayPromises = 0
    /\ timers = <<>>
    /\ seekObs = NoSeek
    /\ autoAdvance = -1
    /\ endedAwaitPlay = FALSE
    /\ switchObs = NoSwitch
    /\ lastToggle = NoToggle
    /\ loadErrors = NoLoadErrors
    /\ stalePreloads = NoStalePreloads

MountedSequential == MountedWithClips(1..MaxClips)

\* every clip url can be loaded
InitPlayer == MountedSequential /\ failing = {} /\ hlsSupport = "hlsjs"

NextPlayer ==
    \/ TogglePlayPause
    \/ Seek
    \/ SeekTimerFires
    \/ MediaLoaded
    \/ AnimationFrame
    \/ PlayStarts
    \/ TimeUpdate
    \/ PlaybackProgress
    \/ VideoEnded
    \/ PreloadCanPlay
    \/ RollCanPlay

SpecPlayer == InitPlayer /\ [][NextPlayer]_vars

\* the browser delivers loadeddata of a load that completes, runs queued
\* animation frame callbacks and settles play() promises
SpecPlayerFair ==
    /\ SpecPlayer
    /\ WF_vars(MediaLoaded)
    /\ WF_vars(AnimationFrame)
    /\ WF_vars(PlayStarts)

\* the player with a clip list longer than the preload buffer
InitPlayerLong ==
    MountedWithClips(1..MaxBufferClips) /\ failing = {} /\ hlsSupport = "hlsjs"

SpecPlayerLong == InitPlayerLong /\ [][NextPlayer]_vars

\* ------------------------------------------- player with failing clip loads
\* readyState 0 with video.error set: the load of video.src failed
LoadFailed == -1

\* error event of the main <video>: the element has no onError handler, the
\* loadeddata listeners stay registered and are never called
MediaError ==
    /\ vSrc \in failing
    /\ ~(isHlsMode /\ hlsSupport = "hlsjs")
    /\ vReady = 0
    /\ vReady' = LoadFailed
    /\ UNCHANGED <<storeVars, pageVars, obsVars, rtVars, transcriptVars, envVars, countVars, reactVars,
                   preloadVars, vSrc, vTime, vPaused, vEnded, pendingVars,
                   playerObsVars>>

\* one more error event for clip index
ErrorsAfter(index) ==
    [loadErrors EXCEPT ![index] = IF @ < MaxLoadErrors THEN @ + 1 ELSE @]

\* error event of a <video> of the preload effect: onError logs
PreloadError ==
    \E index \in inflightInit :
        /\ UrlOf(index) \in failing
        /\ inflightInit' = inflightInit \ {index}
        /\ loadErrors' = ErrorsAfter(index)
        /\ UNCHANGED <<storeVars, pageVars, obsVars, rtVars, transcriptVars, failing, hlsSupport,
                       stalePreloads, countVars, reactVars,
                       loadedCount, inflightRoll, videoVars, pendingVars,
                       playerObsVars>>

\* error event of a <video> created by the rolling buffer: it has no error
\* listener, the element is dropped
RollError ==
    \E targetIndex \in PreloadIdx :
        /\ inflightRoll[targetIndex] > 0
        /\ UrlOf(targetIndex) \in failing
        /\ inflightRoll' = [inflightRoll EXCEPT ![targetIndex] = @ - 1]
        /\ loadErrors' = ErrorsAfter(targetIndex)
        /\ UNCHANGED <<storeVars, pageVars, obsVars, rtVars, transcriptVars, failing, hlsSupport,
                       stalePreloads, countVars, reactVars,
                       loadedCount, inflightInit, videoVars, pendingVars,
                       playerObsVars>>

\* the urls of the clips
ClipUrls == {clips[i].clip_url : i \in 1..Len(clips)}

\* any set of the clips may be unloadable
InitPlayerErr ==
    MountedSequential /\ failing \in SUBSET ClipUrls /\ hlsSupport = "hlsjs"

NextPlayerErr ==
    \/ NextPlayer
    \/ MediaError
    \/ PreloadError
    \/ RollError

SpecPlayerErr == InitPlayerErr /\ [][NextPlayerErr]_vars

\* loads end, with data or with an error; queued callbacks run
SpecPlayerErrFair ==
    /\ SpecPlayerErr
    /\ WF_vars(MediaLoaded)
    /\ WF_vars(MediaError)
    /\ WF_vars(PreloadCanPlay)
    /\ WF_vars(PreloadError)
    /\ WF_vars(RollError)
    /\ WF_vars(AnimationFrame)
    /\ WF_vars(PlayStarts)

\* ------------------------------------------------ player given a manifest
\* hls.on(Hls.Events.ERROR) with data.fatal: the handler logs, hls.js stops
\* loading
HlsFatalError ==
    /\ isHlsMode
    /\ hlsSupport = "hlsjs"
    /\ vSrc \in failing
    /\ vReady = 0
    /\ vReady' = LoadFailed
    /\ UNCHANGED <<storeVars, pageVars, obsVars, rtVars, transcriptVars, envVars, countVars, reactVars,
                   preloadVars, vSrc, vTime, vPaused, vEnded, pendingVars,
                   playerObsVars>>

\* the player right after it mounted with n clips and hlsManifestUrl: the
\* preload effect set bufferReady and firstClipReady, the load effect
\* returned at its isHlsMode guard, the HLS effect attached the stream through
\* hls.js or as video.src, or did nothing where the browser offers neither
MountedHls ==
    /\ \E n \in 1..MaxClips :
         /\ serverDecisions = InitialList(n, n)
         /\ editDecisions = InitialList(n, n)
         /\ clips = PreviewClips(InitialList(n, n))
    /\ undoStack = <<>>
    /\ redoStack = <<>>
    /\ notified = <<StoreState(editDecisions, <<>>, <<>>)>>
    /\ selectedDecisions = <<>>
    /\ editingDecisionId = NoId
    /\ refetchEdit = FALSE
    /\ refetchPreview = FALSE
    /\ lastOp = "mount"
    /\ lastArgs = <<>>
    /\ nOps = 0
    /\ InitRoundTripOff
    /\ TranscriptEditorMounted
    /\ currentClipIndex = 0
    /\ isPlaying = FALSE
    /\ currentTime = 0
    /\ isSeeking = FALSE
    /\ isLoadingClip = FALSE
    /\ firstClipReady = TRUE
    /\ bufferReady = TRUE
    /\ intendedPlaying = FALSE
    /\ preloadCache = {}
    /\ isHlsMode = TRUE
    /\ loadedCount = 0
    /\ inflightInit = {}
    /\ inflightRoll = [i \in PreloadIdx |-> 0]
    /\ hlsSupport \in {"hlsjs", "native", "none"}
    /\ loadErrors = NoLoadErrors
    /\ stalePreloads = NoStalePreloads
    /\ vSrc = (IF hlsSupport = "none" THEN 0 ELSE ManifestSrc)
    /\ vTime = 0
    /\ vReady = 0
    /\ vPaused = TRUE
    /\ vEnded = FALSE
    /\ listeners = <<>>
    /\ frames = <<>>
    /\ nPlayPromises = 0
    /\ timers = <<>>
    /\ seekObs = NoSeek
    /\ autoAdvance = -1
    /\ endedAwaitPlay = FALSE
    /\ switchObs = NoSwitch
    /\ lastToggle = NoToggle

\* the stream loads, or reports an error
InitPlayerHls == MountedHls /\ failing \in SUBSET {ManifestSrc}

NextPlayerHls ==
    \/ TogglePlayPause
    \/ Seek
    \/ SeekTimerFires
    \/ MediaLoaded
    \/ AnimationFrame
    \/ PlayStarts
    \/ TimeUpdate
    \/ PlaybackProgress
    \/ VideoEnded
    \/ MediaError
    \/ HlsFatalError

SpecPlayerHls == InitPlayerHls /\ [][NextPlayerHls]_vars

\* the stream's load ends, with data or with an error; queued callbacks run
SpecPlayerHlsFair ==
    /\ SpecPlayerHls
    /\ WF_vars(MediaLoaded)
    /\ WF_vars(MediaError)
    /\ WF_vars(HlsFatalError)
    /\ WF_vars(AnimationFrame)
    /\ WF_vars(PlayStarts)

\* ------------------------------ player whose clip list is replaced by another
\* the playback lists of one and of two decisions, with any of them excluded
ClipLists ==
    {PreviewClips([i \in 1..m |-> InitialDecision(i, i \in included)]) :
        m \in 1..MaxClips, included \in SUBSET (1..MaxClips)} \ {<<>>}

\* the preview query delivers another non-empty list. The preload effect has
\* the dependencies [clips.length, isHlsMode]: with a new length its clean-up
\* clears the cache and it starts over, while the <video> elements of the run
\* before go on loading; with the same length nothing of it runs. The load
\* effect (dependency clips) loads clips[currentClipIndex] if the element has
\* another source.
ClipsReplaced ==
    \E list \in ClipLists :
        /\ lastOp = "mount"
        /\ NumClips > 0
        /\ stalePreloads = NoStalePreloads
        /\ \A i \in PreloadIdx : inflightRoll[i] = 0
        /\ list # clips
        /\ clips' = list
        /\ lastOp' = "clipsReplaced"
        /\ IF Len(list) # NumClips
           THEN /\ stalePreloads' = [loading |-> inflightInit,
                                     loadedCount |-> loadedCount,
                                     clipsToPreload |-> clipsToPreload]
                /\ preloadCache' = {}
                /\ firstClipReady' = FALSE
                /\ loadedCount' = 0
                /\ inflightInit' =
                     0..((IF BUFFER_SIZE < Len(list) THEN BUFFER_SIZE ELSE Len(list)) - 1)
           ELSE UNCHANGED <<stalePreloads, preloadCache, firstClipReady,
                            loadedCount, inflightInit>>
        /\ IF currentClipIndex < Len(list)
              /\ vSrc # list[currentClipIndex + 1].clip_url
           THEN /\ isLoadingClip' = TRUE
                /\ vSrc' = list[currentClipIndex + 1].clip_url
                /\ vTime' = 0
                /\ vReady' = 0
                /\ vPaused' = TRUE
                /\ vEnded' = FALSE
                /\ nPlayPromises' = 0
                /\ listeners' = Append(listeners, EffectListener(ShouldAutoPlay))
           ELSE UNCHANGED <<isLoadingClip, vSrc, vTime, vReady, vPaused, vEnded,
                            nPlayPromises, listeners>>
        /\ UNCHANGED <<storeVars, editingDecisionId, refetchEdit, refetchPreview,
                       serverDecisions, lastArgs, countVars, rtVars, transcriptVars, failing,
                       hlsSupport, loadErrors, currentClipIndex, isPlaying,
                       currentTime, isSeeking, bufferReady, intendedPlaying,
                       isHlsMode, inflightRoll, frames, timers, playerObsVars>>

\* canplaythrough of a <video> of the run before: its onCanPlay still runs
StaleCanPlay ==
    \E index \in stalePreloads.loading :
        /\ stalePreloads' =
             [stalePreloads EXCEPT !.loading = @ \ {index}, !.loadedCount = @ + 1]
        /\ preloadCache' = preloadCache \cup {index}
        /\ firstClipReady' = (firstClipReady \/ index = 0)
        /\ bufferReady' =
             (bufferReady
                \/ stalePreloads.loadedCount + 1 >= stalePreloads.clipsToPreload)
        /\ UNCHANGED <<storeVars, pageVars, obsVars, rtVars, transcriptVars, failing, hlsSupport,
                       loadErrors, countVars, currentClipIndex, isPlaying,
                       currentTime, isSeeking, isLoadingClip, intendedPlaying,
                       isHlsMode, preloadVars, videoVars, pendingVars,
                       playerObsVars>>

NextPlayerReplace ==
    \/ NextPlayer
    \/ ClipsReplaced
    \/ StaleCanPlay

SpecPlayerReplace == InitPlayer /\ [][NextPlayerReplace]_vars

\* ------------------------------------ player whose clip list is replaced
\* nothing the player started is still under way
PlayerQuiet ==
    /\ listeners = <<>>
    /\ frames = <<>>
    /\ nPlayPromises = 0
    /\ timers = <<>>
    /\ inflightInit = {}
    /\ \A i \in PreloadIdx : inflightRoll[i] = 0

\* the preview query returns no clips (every decision excluded and saved): the
\* player renders "No clips to preview" instead of the <video>, the preload
\* effect clears its cache and takes its empty branch, the load effect finds
\* no element; the other state and the refs stay as they are
ClipsEmptied ==
    /\ lastOp = "mount"
    /\ NumClips > 0
    /\ PlayerQuiet
    /\ clips' = <<>>
    /\ lastOp' = "clipsEmptied"
    /\ vSrc' = 0
    /\ vTime' = 0
    /\ vReady' = 0
    /\ vPaused' = TRUE
    /\ vEnded' = FALSE
    /\ preloadCache' = {}
    /\ loadedCount' = 0
    /\ bufferReady' = TRUE
    /\ firstClipReady' = TRUE
    /\ seekObs' = NoSeek
    /\ autoAdvance' = -1
    /\ endedAwaitPlay' = FALSE
    /\ switchObs' = NoSwitch
    /\ lastToggle' = NoToggle
    /\ UNCHANGED <<storeVars, editingDecisionId, refetchEdit, refetchPreview,
                   serverDecisions, lastArgs, countVars, rtVars, transcriptVars, envVars,
                   currentClipIndex, isPlaying, currentTime, isSeeking,
                   isLoadingClip, intendedPlaying, isHlsMode, inflightInit,
                   inflightRoll, pendingVars>>

\* the preview query returns n clips again: a new <video> is rendered, the
\* preload effect starts over and the load effect loads clips[currentClipIndex]
\* if there is one
ClipsRestored ==
    /\ lastOp = "clipsEmptied"
    /\ \E n \in 1..MaxClips :
         LET restored == PreviewClips(InitialList(n, n)) IN
         /\ clips' = restored
         /\ inflightInit' = 0..((IF BUFFER_SIZE < n THEN BUFFER_SIZE ELSE n) - 1)
         /\ IF currentClipIndex < n
            THEN /\ isLoadingClip' = TRUE
                 /\ vSrc' = restored[currentClipIndex + 1].clip_url
                 /\ listeners' = <<EffectListener(ShouldAutoPlay)>>
            ELSE UNCHANGED <<isLoadingClip, vSrc, listeners>>
    /\ lastOp' = "clipsRestored"
    /\ firstClipReady' = FALSE
    /\ loadedCount' = 0
    /\ preloadCache' = {}
    /\ UNCHANGED <<storeVars, editingDecisionId, refetchEdit, refetchPreview,
                   serverDecisions, lastArgs, countVars, rtVars, transcriptVars, envVars,
                   currentClipIndex, isPlaying, currentTime, isSeeking,
                   bufferReady, intendedPlaying, isHlsMode, inflightRoll,
                   vTime, vReady, vPaused, vEnded, frames, nPlayPromises,
                   timers, playerObsVars>>

NextPlayerClips ==
    \/ NextPlayer
    \/ ClipsEmptied
    \/ ClipsRestored

SpecPlayerClips == InitPlayer /\ [][NextPlayerClips]_vars

SpecPlayerClipsFair ==
    /\ SpecPlayerClips
    /\ WF_vars(MediaLoaded)
    /\ WF_vars(AnimationFrame)
    /\ WF_vars(PlayStarts)
    /\ WF_vars(PreloadCanPlay)

\* ------------------------------------------- global time <-> clip position
\* the global times handed to the mappings
MapTimes == (0 - MapMargin)..(totalDuration + MapMargin)

\* what handleSeek makes of newGlobalTime = t (target index, local time, the
\* position the element of that clip takes), the index handleTimeUpdate
\* computes in HLS mode for video.currentTime = t, and the global time
\* handleTimeUpdate computes back from the seek's index and position
MapTime ==
    \E t \in MapTimes :
        /\ lastOp' = "map"
        /\ lastArgs' = [t |-> t,
                        index |-> SeekTargetIndex(t),
                        local |-> SeekLocalTime(t),
                        position |-> ClampTime(SeekLocalTime(t), UrlOf(SeekTargetIndex(t))),
                        hlsIndex |-> HlsWalk(t, 0, 0),
                        back |-> getAccumulatedTime(SeekTargetIndex(t))
                                   + ClampTime(SeekLocalTime(t), UrlOf(SeekTargetIndex(t)))]
        /\ UNCHANGED <<storeVars, pageVars, countVars, rtVars, transcriptVars, playerVars>>

NextMapper == MapTime

SpecMapper == InitPlayer /\ [][NextMapper]_vars

\* =================================================================== claims
EDLCommandOps == {"toggle", "reorder", "update", "remove"}
EDLMutationOps == EDLCommandOps \cup {"undo", "redo"}

\* C1: each EDL command (toggleDecisionInclusion, reorderDecisions,
\* updateDecision, removeDecision) pushes the complete pre-command list onto
\* undoStack and clears redoStack: in every command step the new undoStack is
\* the old one with the old list appended, and the new redoStack is empty.
C1_CommandSnapshotsFirst ==
    [][(ToggleInclusion \/ Reorder \/ Update \/ Remove) =>
          /\ undoStack' = Append(undoStack, editDecisions)
          /\ Last(undoStack') = editDecisions
          /\ redoStack' = <<>>]_vars

\* a command has run on a changed list after an undo had filled the redo stack
C1_Witness ==
    /\ lastOp \in EDLCommandOps
    /\ nOps = 3
    /\ Len(undoStack) = 1
    /\ redoStack = <<>>
    /\ Last(undoStack) # editDecisions

\* C2: N commands, N undos: the list equals the original list; then N redos:
\* the list equals the list after the N commands (same order, same fields).
C2_UndoRedoRoundTrip ==
    /\ (rtPhase = "mutate" /\ rtN = 0) => editDecisions = rtOrig
    /\ (rtPhase = "undo" /\ rtUndone = rtN) => editDecisions = rtOrig
    /\ (rtPhase = "redo" /\ rtRedone = rtN) => editDecisions = rtFinal

\* Scenario C in full: two commands, two undos, two redos, a list that the
\* commands reordered
C2_Witness ==
    /\ rtPhase = "redo"
    /\ rtN = 2
    /\ rtRedone = 2
    /\ Len(rtOrig) = 3
    /\ Len(rtFinal) = 3
    /\ rtFinal[1].id # rtOrig[1].id
    /\ editDecisions = rtFinal
    /\ editDecisions # rtOrig

RECURSIVE SumIncluded(_)
SumIncluded(list) ==
    IF list = <<>> THEN 0
    ELSE (IF Head(list).is_included
          THEN Head(list).end_time - Head(list).start_time ELSE 0)
         + SumIncluded(Tail(list))

IncludedCount(list) == Cardinality({i \in 1..Len(list) : list[i].is_included})

\* ------------------------------------------------------------- player claims
\* nothing of a seek is pending any more: its timers fired, the load of the
\* clip completed and the callbacks it queued ran
SeekSettled ==
    /\ timers = <<>>
    /\ listeners = <<>>
    /\ frames = <<>>
    /\ vReady >= 2

PlayerAt(goal) == currentClipIndex = goal[1] /\ vSrc = UrlOf(goal[1]) /\ vTime = goal[2]

\* C3: after handleSeek(t) to another clip (index i, local time l), once the
\* load of the clip and the deferred timer have both completed, in whichever
\* order, the active clip index is i and the media position is l
C3_CrossClipSeekLands ==
    (seekObs.cross /\ ~seekObs.overlap /\ SeekSettled) => PlayerAt(seekObs.goal)

PlayingClip(k) == currentClipIndex = k /\ vSrc = UrlOf(k) /\ ElementPlaying

\* the loading state is shown while the clip switched to has no data yet
LoadingShownUntilReady ==
    (autoAdvance # -1 /\ vReady < 2) => isLoadingClip

\* C4: when clip i ends while the user intends playback and i is not the last
\* clip, the player switches to clip i+1, shows the loading state until that
\* clip is ready and, the load completing, plays clip i+1 without the user
\* doing anything
C4_AutoAdvance ==
    /\ [](autoAdvance # -1 => currentClipIndex = autoAdvance)
    /\ []LoadingShownUntilReady
    /\ (autoAdvance # -1) ~> (autoAdvance = -1 \/ PlayingClip(autoAdvance))

C4_Witness ==
    /\ autoAdvance = 1
    /\ nPlayPromises = 0
    /\ PlayingClip(1)
    /\ isPlaying
    /\ ~isLoadingClip

\* C5: when the last clip ends the position is reset to global time 0 (clip
\* index 0), the intended-playing flag is cleared and playback does not start
\* again until the user issues a new play request
C5_EndedState ==
    endedAwaitPlay =>
        /\ currentClipIndex = 0
        /\ currentTime = 0
        /\ ~intendedPlaying
        /\ ~ElementPlaying
        /\ ~isPlaying

\* C6: handleSeek(t2) called while the timer of an earlier handleSeek(t1) has
\* not fired replaces the pending target: after all timers have fired the
\* clip index and the media position are those of t2 (taken where t2 finds
\* the clip loaded and stays in it, so that only the timers act after it)
C6_LatestSeekWins ==
    (seekObs.overlap /\ ~seekObs.loading /\ SeekSettled) => PlayerAt(seekObs.goal)


\* C7: after any sequence of EDL mutations the player's total duration is the
\* sum of (end_time - start_time) over the included decisions and it plays as
\* many clips as there are included decisions.
C7_DurationSum ==
    (lastOp \in EDLMutationOps \/ lastOp = "trimSave") =>
        /\ totalDuration = SumIncluded(editDecisions)
        /\ Len(clips) = IncludedCount(editDecisions)

\* the trim dialog's times are out of range: start >= end or shorter than 0.1 s
InvalidRange(startTime, endTime) ==
    startTime >= endTime \/ endTime - startTime < MinTrimDuration

TrimSaveStep == lastOp' = "trimSave" /\ Len(lastArgs') = 2

\* C8: a valid trim saved from the dialog pushes the pre-trim list onto the
\* undo stack and clears the redo stack.
C8_TrimRecorded ==
    [][(TrimSaveStep /\ ~InvalidRange(lastArgs'[1], lastArgs'[2])) =>
          /\ undoStack' = Append(undoStack, editDecisions)
          /\ redoStack' = <<>>]_vars

\* C9: a trim with start >= end or a duration under 0.1 s changes nothing:
\* list, undo stack and redo stack are as before.
C9_InvalidTrimRejected ==
    [][(TrimSaveStep /\ InvalidRange(lastArgs'[1], lastArgs'[2])) =>
          UNCHANGED <<editDecisions, undoStack, redoStack>>]_vars

\* start < end but shorter than the minimum, on a list with history
C9_Witness ==
    /\ lastOp = "trimSave"
    /\ lastArgs[1] < lastArgs[2]
    /\ lastArgs[2] - lastArgs[1] < MinTrimDuration
    /\ editDecisions # <<>>
    /\ undoStack # <<>>
    /\ editingDecisionId # NoId

UniqueOrderIndex(list) ==
    \A i, j \in 1..Len(list) : list[i].order_index = list[j].order_index => i = j

ContiguousIncluded(list) ==
    LET idx == {list[i].order_index : i \in {k \in 1..Len(list) : list[k].is_included}}
    IN  \A a, b \in idx : \A m \in a..b : m \in idx

\* C10: after every EDL command the order_index values are unique and those
\* of the included decisions form a contiguous range.
C10_OrderIndexInvariant ==
    lastOp \in EDLMutationOps =>
        /\ UniqueOrderIndex(editDecisions)
        /\ ContiguousIncluded(editDecisions)

\* every decision of a list starts before it ends
WellFormedTimes(list) == \A i \in 1..Len(list) : list[i].start_time < list[i].end_time

\* C11: starting from a list whose decisions all have start_time < end_time,
\* every decision in editDecisions and in every snapshot on the undo and redo
\* stacks has start_time < end_time, whatever commands have been issued
C11_StartBeforeEnd ==
    /\ WellFormedTimes(editDecisions)
    /\ \A k \in 1..Len(undoStack) : WellFormedTimes(undoStack[k])
    /\ \A k \in 1..Len(redoStack) : WellFormedTimes(redoStack[k])

\* C12: at a switch from clip i to clip i+1 in sequential mode the first global
\* time emitted to onTimeUpdate after the switch is the local time of the new
\* clip plus the cumulative duration before it, and it neither repeats nor
\* falls below the last value emitted for clip i
C12_TimeSignalAtSwitch ==
    (switchObs.to # -1 /\ switchObs.first # -1) =>
        /\ switchObs.at[1] = switchObs.to
        /\ switchObs.first = getAccumulatedTime(switchObs.to) + switchObs.at[2]
        /\ switchObs.first > switchObs.last

\* the last press asked for playback while the element had no data yet
PlayRequestedEarly == lastToggle.kind = "play" /\ ~lastToggle.ready

\* ... and no playback has begun since
EarlyPlayPending == PlayRequestedEarly /\ ~lastToggle.served

\* C13: when play is requested while the current clip is not ready yet, the
\* request is remembered in intendedPlayingRef and, once the clip is ready,
\* the player plays without another user action
C13_PlayRequestRemembered ==
    /\ [](EarlyPlayPending => intendedPlaying)
    /\ EarlyPlayPending ~> (~PlayRequestedEarly \/ ElementPlaying)

\* C13 for the requests togglePlayPause accepts, those made after firstClipReady
C13_AcceptedRequestRemembered ==
    /\ []((EarlyPlayPending /\ ~lastToggle.gated) => intendedPlaying)
    /\ (EarlyPlayPending /\ ~lastToggle.gated)
           ~> (~PlayRequestedEarly \/ lastToggle.gated \/ ElementPlaying)

C13_Witness ==
    /\ PlayRequestedEarly
    /\ ~lastToggle.gated
    /\ lastToggle.served
    /\ intendedPlaying
    /\ ElementPlaying
    /\ isPlaying

\* C14: after the most recent press of play / pause was a pause, the player is
\* not playing, also when a clip load or a play continuation started before
\* the pause completes after it
C14_PauseIsSticky ==
    lastToggle.kind = "pause" => (~ElementPlaying /\ ~isPlaying)

\* some clip after index i can be loaded
LaterPlayable(i) == \E j \in (i + 1)..(NumClips - 1) : UrlOf(j) \notin failing

\* the load of the active clip failed and a later clip can be loaded
FailedWithLater == vReady = LoadFailed /\ LaterPlayable(currentClipIndex)

\* C15: when the active clip fails to load and a later clip can be loaded,
\* the player moves on to a clip that can be loaded, and once the preloads
\* have ended, with a loadable clip among them, togglePlayPause accepts play
\* requests
C15_SkipsFailedClip ==
    /\ FailedWithLater ~> (vSrc \notin failing)
    /\ []((inflightInit = {} /\ ClipUrls \ failing # {}) => firstClipReady)

Mapped == lastOp = "map"

\* C16: handleSeek(t) with t >= totalDuration resolves to the last clip at
\* local time = its duration, and with t < 0 to the first clip at local time 0
C16_SeekClamped ==
    Mapped =>
        /\ lastArgs.t >= totalDuration =>
              /\ lastArgs.index = NumClips - 1
              /\ lastArgs.position = ClipAt(NumClips - 1).duration
        /\ lastArgs.t < 0 =>
              /\ lastArgs.index = 0
              /\ lastArgs.position = 0

\* t is the boundary in front of clip k: the cumulative duration of clips 0..k-1
BoundaryOf(t, k) == k \in 1..(NumClips - 1) /\ t = getAccumulatedTime(k)

\* C17: a global time equal to an internal clip boundary maps to the clip that
\* starts there at local time 0, not to the clip before at its end, in
\* handleSeek and in the index mapping of handleTimeUpdate in HLS mode
C17_BoundaryToNextClip ==
    Mapped =>
        \A k \in 1..(NumClips - 1) :
            BoundaryOf(lastArgs.t, k) =>
                /\ lastArgs.index = k
                /\ lastArgs.local = 0
                /\ lastArgs.hlsIndex = k

C17_Witness ==
    /\ Mapped
    /\ BoundaryOf(lastArgs.t, 1)
    /\ lastArgs.index = 1
    /\ lastArgs.local = 0
    /\ lastArgs.hlsIndex = 1

\* C18: for t in [0, totalDuration) the index and local time handleSeek
\* computes, converted back as handleTimeUpdate does (cumulative duration
\* before the index + local time), give t
C18_SeekRoundTrip ==
    (Mapped /\ 0 <= lastArgs.t /\ lastArgs.t < totalDuration) =>
        lastArgs.back = lastArgs.t

C18_Witness ==
    /\ Mapped
    /\ lastArgs.index = 1
    /\ lastArgs.local > 0
    /\ lastArgs.t < totalDuration
    /\ lastArgs.back = lastArgs.t

\* C19: a seek issued while the player is paused, also after playback has
\* ended, completes with the player paused, and a seek issued while it is
\* playing completes with the player playing, on the same clip or another
C19_SeekKeepsPlayState ==
    /\ [](seekObs.was = "paused" => (~ElementPlaying /\ ~isPlaying))
    /\ (seekObs.was = "playing") ~> (seekObs.was # "playing" \/ ElementPlaying)

\* a manifest was given and the stream cannot be used: the browser offers
\* neither hls.js nor native HLS, or the stream failed
StreamUnusable == isHlsMode /\ (hlsSupport = "none" \/ vReady = LoadFailed)

\* C20: when a manifest URL is given and the stream cannot be used, the player
\* goes on clip by clip: a clip is loaded into the element, and a play
\* request leads to playback
C20_FallsBackToSequential ==
    /\ StreamUnusable ~> (vSrc \in ClipUrls)
    /\ (StreamUnusable /\ lastToggle.kind = "play" /\ ~lastToggle.served)
           ~> (lastToggle.kind # "play" \/ ElementPlaying)

UndoStep == lastOp' = "undo" /\ nOps' = nOps + 1
RedoStep == lastOp' = "redo" /\ nOps' = nOps + 1

\* C21: undo() with a non-empty undoStack removes the top snapshot from
\* undoStack, pushes the current list onto redoStack and makes the removed
\* snapshot the current list; with an empty undoStack it leaves the list and
\* both stacks as they are
C21_UndoStep ==
    [][UndoStep =>
          IF undoStack # <<>>
          THEN /\ undoStack' = SubSeq(undoStack, 1, Len(undoStack) - 1)
               /\ redoStack' = redoStack \o <<editDecisions>>
               /\ editDecisions' = undoStack[Len(undoStack)]
          ELSE UNCHANGED <<editDecisions, undoStack, redoStack>>]_vars

\* an undo has restored a list that differs from the one it replaced, with a
\* snapshot still left on the undo stack
C21_Witness ==
    /\ lastOp = "undo"
    /\ undoStack # <<>>
    /\ redoStack # <<>>
    /\ Last(redoStack) # editDecisions
    /\ Last(undoStack) # editDecisions

\* C22: redo() with a non-empty redoStack removes the top snapshot from
\* redoStack, pushes the current list onto undoStack and makes the removed
\* snapshot the current list; with an empty redoStack it leaves the list and
\* both stacks as they are
C22_RedoStep ==
    [][RedoStep =>
          IF redoStack # <<>>
          THEN /\ redoStack' = SubSeq(redoStack, 1, Len(redoStack) - 1)
               /\ undoStack' = undoStack \o <<editDecisions>>
               /\ editDecisions' = redoStack[Len(redoStack)]
          ELSE UNCHANGED <<editDecisions, undoStack, redoStack>>]_vars

\* a redo has brought back the list an undo had replaced
C22_Witness ==
    /\ lastOp = "redo"
    /\ nOps = 3
    /\ undoStack # <<>>
    /\ redoStack = <<>>
    /\ Last(undoStack) # editDecisions

\* C23: in every reachable state of the store canUndo() is true exactly when
\* undoStack is non-empty and canRedo() exactly when redoStack is non-empty
C23_CanUndoRedo ==
    /\ canUndo <=> undoStack # <<>>
    /\ canRedo <=> redoStack # <<>>

\* states where the two answers differ, after undo and after a command
C23_Witness ==
    /\ lastOp = "undo"
    /\ undoStack = <<>>
    /\ redoStack # <<>>
    /\ ~canUndo
    /\ canRedo

\* a state in which both stacks are those the command leaves and the list is
\* the one the command replaced
PartialCommandState(st) ==
    /\ st.undoStack = undoStack
    /\ st.redoStack = redoStack
    /\ st.editDecisions = Last(undoStack)
    /\ st.editDecisions # editDecisions

\* C24: a command of the store (toggleDecisionInclusion, reorderDecisions,
\* updateDecision, removeDecision) never has a subscriber notified of a state
\* whose undo and redo stacks already reflect the command while editDecisions
\* is still the list from before the command
C24_CommandAtomic ==
    lastOp \in EDLCommandOps =>
        \A k \in 1..Len(notified) : ~PartialCommandState(notified[k])

\* the cumulative-duration range of clip i contains t
InClipRange(t, i) ==
    getAccumulatedTime(i) <= t /\ t < getAccumulatedTime(i) + ClipAt(i).duration

\* C25: in HLS mode, for every media time t the element reports, the clip
\* index handleTimeUpdate emits is that of the clip whose cumulative-duration
\* range contains t, and the last clip for t at or beyond the total duration
C25_HlsClipIndex ==
    (Mapped /\ lastArgs.t >= 0) =>
        /\ lastArgs.hlsIndex \in 0..(NumClips - 1)
        /\ lastArgs.t < totalDuration => InClipRange(lastArgs.t, lastArgs.hlsIndex)
        /\ lastArgs.t >= totalDuration => lastArgs.hlsIndex = NumClips - 1

\* the list came back and play / pause has not been pressed since
RestoredUntouched == lastOp = "clipsRestored" /\ lastToggle = NoToggle

\* play was pressed after the list came back and togglePlayPause took it
RestoredPlayAccepted ==
    /\ lastOp = "clipsRestored"
    /\ lastToggle.kind = "play"
    /\ ~lastToggle.gated

\* C26: while the clip list is empty the player is not in the playing state;
\* when the list becomes non-empty again the player starts from a non-playing
\* state, and a play request then leads to playback
C26_EmptyListNotPlaying ==
    /\ [](NumClips = 0 => ~isPlaying /\ ~ElementPlaying)
    /\ [](RestoredUntouched => ~isPlaying /\ ~ElementPlaying)
    /\ (RestoredPlayAccepted /\ ~lastToggle.served)
           ~> (~RestoredPlayAccepted \/ ElementPlaying)

\* the player has reported a clip of the playback list of the current EDL
ReportedInSync == lastOp = "clipChange" /\ clips = PreviewClips(editDecisions)

\* C27: the card marked as currently playing is the decision whose clip the
\* player plays: for a reported clip index i it is the i-th element of the
\* playback list (included decisions sorted by order_index), also after
\* decisions were excluded, re-included or deleted
C27_HighlightFollowsPlayer ==
    ReportedInSync =>
        \A showExcluded \in BOOLEAN :
            HighlightedIds(showExcluded, lastArgs[1])
                = {clips[lastArgs[1] + 1].decision_id}

\* the media of the element has data (readyState >= 2, the test of the code)
MediaReady == vReady >= 2

\* video.play() is invoked
PlayInvoked == vPaused /\ ~vPaused'

\* C28: in sequential mode the media element is only started (play() invoked,
\* or the player reported as playing) for a clip whose media is ready; while
\* the current clip is loading the player shows loading and does not report
\* playing
C28_StartOnlyWhenReady ==
    /\ [][PlayInvoked => MediaReady]_vars
    /\ [](isPlaying => MediaReady)
    /\ []((vSrc # 0 /\ ~MediaReady) => (isLoadingClip /\ ~isPlaying))

\* clip index is in the <video>, in the preload cache or being preloaded
BufferKnows(index) ==
    \/ (index = currentClipIndex /\ vSrc = UrlOf(index))
    \/ index \in preloadCache
    \/ index \in inflightInit
    \/ inflightRoll[index] > 0

\* C29: once buffer maintenance has run for the current clip index i (initial
\* preload, clip advance, seek to clip i), every clip index of [i, i+3] that
\* exists is loading, ready or failed, never not-loaded
C29_BufferWindow ==
    \A index \in currentClipIndex..(currentClipIndex + BUFFER_SIZE) :
        index < NumClips => BufferKnows(index)

\* setEditDecisions has just put the list delivered by the server into the
\* store: every snapshot the stacks hold was taken before this load
JustLoaded == lastOp \in {"load", "refetchEdit"}

\* C30: the history belongs to the list that is loaded: after setEditDecisions
\* replaced the list with data from the server (initial load, refetch after a
\* save), undo() never makes a snapshot current that was taken before the load
C30_HistoryOfLoadedList ==
    [][(JustLoaded /\ UndoStep) => UNCHANGED <<editDecisions, undoStack, redoStack>>]_vars

\* number of detached <video> elements loading clip index (preload effect and
\* rolling buffer), none of them in the cache yet
LoadsInFlight(index) ==
    (IF index \in inflightInit THEN 1 ELSE 0) + inflightRoll[index]

LoadsInFlightNext(index) ==
    (IF index \in inflightInit' THEN 1 ELSE 0) + inflightRoll'[index]

\* C31: a load is started only for a clip that is neither resident nor already
\* loading: across any sequence of time-update events at most one load is in
\* flight for any clip index at a time
C31_OneLoadPerClip ==
    \A index \in PreloadIdx : LoadsInFlight(index) <= 1

\* the retention window of the buffer around the current clip index
InRetentionWindow(index) ==
    /\ currentClipIndex - BehindKeep <= index
    /\ index <= currentClipIndex + BUFFER_SIZE

\* a timeupdate whose handler runs the clean-up of old clips
EvictionPass == TimeUpdate /\ NeedsBuffer(vTime)

\* C32: after the eviction pass has run for the current clip index c, every
\* clip of [c-2, c+3] that was resident is still resident and no clip outside
\* [c-2, c+3] is resident, also clips far ahead of c that were loaded before a
\* backward seek
C32_RetentionWindow ==
    [][EvictionPass =>
          /\ \A index \in preloadCache :
                 InRetentionWindow(index) => index \in preloadCache'
          /\ \A index \in preloadCache' : InRetentionWindow(index)]_vars

\* clip index failed to load once / at least twice
FailedOnce(index) == loadErrors[index] = 1
FailedTwice(index) == loadErrors[index] >= 2

\* C33: a clip whose load fails is retried exactly once automatically; if the
\* retry fails too the clip stays failed, with no further load attempts for it
\* until the clip list changes
C33_RetryOnce ==
    /\ \A index \in PreloadIdx :
           FailedOnce(index) ~> (LoadsInFlight(index) > 0 \/ ~FailedOnce(index))
    /\ [][\A index \in PreloadIdx :
              FailedTwice(index) => LoadsInFlightNext(index) <= LoadsInFlight(index)]_vars

\* C34: in every reachable state of the editor store selectedDecisions holds
\* only ids of decisions that are in editDecisions, also after removeDecision
\* of a selected decision, undo, redo and setEditDecisions
C34_SelectionWithinList ==
    \A k \in 1..Len(selectedDecisions) : HasId(editDecisions, selectedDecisions[k])

\* a command of the store is called with an id that no decision of the list has
UnknownIdCommand ==
    \E id \in DecisionIds :
        /\ ~HasId(editDecisions, id)
        /\ \/ toggleDecisionInclusion(id)
           \/ removeDecision(id)
           \/ \E u \in Updates(id) : updateDecision(id, u)

\* the toolbar applies its command to a selection none of whose ids is in the
\* list any more
StaleSelectionCommand ==
    /\ DeleteSelected \/ ToggleInclusionSelected
    /\ \A k \in 1..Len(selectedDecisions) : ~HasId(editDecisions, selectedDecisions[k])

\* C37: an EDL command addressed to a decision id that is not in the list
\* (toggleDecisionInclusion, updateDecision, removeDecision) changes nothing:
\* editDecisions, undoStack and redoStack are as before the call
C37_UnknownIdChangesNothing ==
    [][(UnknownIdCommand \/ StaleSelectionCommand)
          => UNCHANGED <<editDecisions, undoStack, redoStack>>]_vars

\* the preload effect has run for the list the player has now
PreloadedThisList == lastOp = "mount" \/ stalePreloads.clipsToPreload > 0

\* C38: in sequential mode firstClipReady is true only if the first clip of
\* the current clip list has finished loading: it is reset whenever the list
\* changes (also when the length stays the same), and a load-complete callback
\* started for a previous list cannot set it for the new list
C38_FirstClipReadyCurrent ==
    /\ [][ClipsReplaced => ~firstClipReady']_vars
    /\ [][StaleCanPlay => UNCHANGED firstClipReady]_vars
    /\ []((NumClips > 0 /\ firstClipReady /\ ~PreloadedThisList)
              => (vSrc = UrlOf(0) /\ MediaReady))

\* ------------------------------------------------ transcript editor claims
\* C35: once a poll response with status completed or failed has been
\* processed for a job, the status of that job never returns to processing
\* and no polling interval is started for it, in whatever order the responses
\* of overlapping polls arrive
C35_PollingMonotonic ==
    [][(JobFinished(processingJob) /\ processingJob'.job_id = processingJob.job_id)
          => (processingJob'.status # "processing" /\ ~progressInterval')]_vars

\* C36: after stopSync() and until the next startSync() the update loop is
\* stopped: no animation frame is requested and the loop hands no state to a
\* callback, also when stopSync() is called from a callback while the loop
\* delivers a notification
C36_StoppedLoopIdle ==
    /\ [](videoElement = "null" => (animationFrameId = "null" /\ ~lateDelivery))
    /\ [][(videoElement = "null" /\ videoElement' = "null") => UNCHANGED <<syncLog>>
            \/ Last(syncLog').from = "resetSync"]_vars

\* the state of the last notification (the initial state before the first)
LastNotified == IF syncLog = <<>> THEN ResetState ELSE Last(syncLog).state

\* C39: updateSyncState notifies only when the segment id, the word index or
\* the playing flag differs from the last notification, or the video time
\* differs from its time by more than 0.1 s; the state it hands out is the one
\* of the element's time and paused flag at that moment
C39_NotifyOnChange ==
    [][(syncLog' # syncLog /\ Last(syncLog').from = "updateSyncState") =>
          LET told == Last(syncLog').state
          IN /\ \/ told.currentSegmentId # LastNotified.currentSegmentId
                \/ told.currentWordIndex # LastNotified.currentWordIndex
                \/ told.isPlaying # LastNotified.isPlaying
                \/ told.currentTime - LastNotified.currentTime > NotifyThreshold
                \/ LastNotified.currentTime - told.currentTime > NotifyThreshold
             /\ told.currentTime = mediaTime'
             /\ told.isPlaying = ~mediaPaused'
             /\ told = StateOf(segments, mediaTime', mediaPaused')]_vars

\* two notifications in a row that differ in the time only
C39_Witness ==
    /\ Len(syncLog) >= 2
    /\ Last(syncLog).from = "updateSyncState"
    /\ LET told == Last(syncLog).state
           before == Last(Front(syncLog)).state
       IN /\ told.currentSegmentId = before.currentSegmentId
          /\ told.currentWordIndex = before.currentWordIndex
          /\ told.isPlaying = before.isPlaying
          /\ told.currentTime - before.currentTime > NotifyThreshold
          /\ told.currentSegmentId # NoId

====
